---- MODULE Spec2Model ----
(***************************************************************************)
(* The prompt-completion pipeline of server/api/prompt.ts: the three       *)
(* request handlers the file contains (the legacy single-shot generator,   *)
(* the two-phase sufficiency-then-generate handler and the clarification-  *)
(* loop handler), the payload extractor, the schema validator              *)
(* (shared/types/issue-generation.ts) and the issue-type normalisation     *)
(* (shared/constants/issue-types.ts).                                      *)
(*                                                                         *)
(* JavaScript strings are sequences of one-character strings.  JavaScript  *)
(* values are records [t, v]: t is the type tag, v the content.            *)
(***************************************************************************)
EXTENDS Integers, Sequences, FiniteSets, TLC

\* ---------------------------------------------------------------- bounds
\* longest previousClarifications list a request carries
MaxClar == 3

\* ------------------------------------------------------ JavaScript values
Undef == [t |-> "undefined", v |-> <<>>]

Null == [t |-> "null", v |-> <<>>]

Str(s) == [t |-> "string", v |-> s]

\* a non-zero number
Num == [t |-> "number", v |-> <<"5">>]

Bool(b) == [t |-> "boolean", v |-> IF b THEN <<"true">> ELSE <<"false">>]

\* an array; xs is a sequence of values
Arr(xs) == [t |-> "array", v |-> xs]

isString(x) == x.t = "string"

isArray(x) == x.t = "array"

isStringArray(x) == isArray(x) /\ \A i \in 1..Len(x.v) : isString(x.v[i])

\* x ?? y
Nullish(x) == x.t \in {"undefined", "null"}

\* Boolean(x): the empty string, undefined, null and false are falsy
Truthy(x) ==
  CASE x.t = "undefined" -> FALSE
    [] x.t = "null" -> FALSE
    [] x.t = "string" -> x.v # <<>>
    [] x.t = "boolean" -> x.v = <<"true">>
    [] OTHER -> TRUE

\* ------------------------------------------------------------- strings
WhiteSpace == {" ", "\n", "\t", "\r"}

RECURSIVE trimStart(_)
trimStart(s) ==
  IF s # <<>> /\ Head(s) \in WhiteSpace THEN trimStart(Tail(s)) ELSE s

RECURSIVE trimEnd(_)
trimEnd(s) ==
  IF s # <<>> /\ s[Len(s)] \in WhiteSpace
    THEN trimEnd(SubSeq(s, 1, Len(s) - 1))
    ELSE s

\* String.prototype.trim
trim(s) == trimEnd(trimStart(s))

UpperCase ==
  {"A", "B", "C", "D", "E", "F", "G", "H", "I", "J", "K", "L", "M",
   "N", "O", "P", "Q", "R", "S", "T", "U", "V", "W", "X", "Y", "Z"}

LowerCase ==
  {"a", "b", "c", "d", "e", "f", "g", "h", "i", "j", "k", "l", "m",
   "n", "o", "p", "q", "r", "s", "t", "u", "v", "w", "x", "y", "z"}

LowerOf ==
  [A |-> "a", B |-> "b", C |-> "c", D |-> "d", E |-> "e", F |-> "f",
   G |-> "g", H |-> "h", I |-> "i", J |-> "j", K |-> "k", L |-> "l",
   M |-> "m", N |-> "n", O |-> "o", P |-> "p", Q |-> "q", R |-> "r",
   S |-> "s", T |-> "t", U |-> "u", V |-> "v", W |-> "w", X |-> "x",
   Y |-> "y", Z |-> "z"]

\* String.prototype.toLowerCase
toLowerCase(s) ==
  [i \in 1..Len(s) |-> IF s[i] \in UpperCase THEN LowerOf[s[i]] ELSE s[i]]

\* --------------------------------------------------- issue-type registry

ISSUE_TYPES_DEFINITION ==
  <<
   [key |-> <<"b", "u", "g">>,
    label |-> <<"B", "u", "g">>,
    aliases |-> <<<<"d", "e", "f", "e", "c", "t">>>>],
   [key |-> <<"s", "t", "o", "r", "y">>,
    label |-> <<"S", "t", "o", "r", "y", " ", "/", " ", "F", "e", "a", "t", "u", "r", "e">>,
    aliases |-> <<<<"f", "e", "a", "t", "u", "r", "e">>,
                  <<"u", "s", "e", "r", " ", "s", "t", "o", "r", "y">>,
                  <<"s", "t", "o", "r", "y", "_", "f", "e", "a", "t", "u", "r", "e">>,
                  <<"s", "t", "o", "r", "y", "-", "f", "e", "a", "t", "u", "r", "e">>,
                  <<"s", "t", "o", "r", "y", "_", "f", "e", "a", "t", "u", "r", "e", "_", "s", "t", "o", "r", "y">>>>],
   [key |-> <<"t", "a", "s", "k">>,
    label |-> <<"T", "a", "s", "k">>,
    aliases |-> <<<<"i", "n", "t", "e", "r", "n", "a", "l", " ", "t", "a", "s", "k">>>>],
   [key |-> <<"s", "p", "i", "k", "e">>,
    label |-> <<"S", "p", "i", "k", "e", " ", "/", " ", "R", "e", "s", "e", "a", "r", "c", "h">>,
    aliases |-> <<<<"r", "e", "s", "e", "a", "r", "c", "h">>,
                  <<"i", "n", "v", "e", "s", "t", "i", "g", "a", "t", "i", "o", "n">>,
                  <<"s", "p", "i", "k", "e", "_", "r", "e", "s", "e", "a", "r", "c", "h">>>>],
   [key |-> <<"t", "e", "c", "h", "n", "i", "c", "a", "l", "_", "d", "e", "b", "t">>,
    label |-> <<"T", "e", "c", "h", "n", "i", "c", "a", "l", " ", "D", "e", "b", "t", " ", "/", " ", "R", "e", "f", "a", "c", "t", "o", "r">>,
    aliases |-> <<<<"t", "e", "c", "h", "n", "i", "c", "a", "l", " ", "d", "e", "b", "t">>,
                  <<"r", "e", "f", "a", "c", "t", "o", "r">>,
                  <<"t", "e", "c", "h", "n", "i", "c", "a", "l", "_", "d", "e", "b", "t", "_", "r", "e", "f", "a", "c", "t", "o", "r">>,
                  <<"t", "e", "c", "h", "n", "i", "c", "a", "l", "d", "e", "b", "t">>>>],
   [key |-> <<"e", "p", "i", "c">>,
    label |-> <<"E", "p", "i", "c">>,
    aliases |-> <<<<"i", "n", "i", "t", "i", "a", "t", "i", "v", "e">>>>],
   [key |-> <<"i", "m", "p", "r", "o", "v", "e", "m", "e", "n", "t">>,
    label |-> <<"I", "m", "p", "r", "o", "v", "e", "m", "e", "n", "t", " ", "/", " ", "E", "n", "h", "a", "n", "c", "e", "m", "e", "n", "t">>,
    aliases |-> <<<<"e", "n", "h", "a", "n", "c", "e", "m", "e", "n", "t">>,
                  <<"i", "m", "p", "r", "o", "v", "e", "m", "e", "n", "t", "_", "e", "n", "h", "a", "n", "c", "e", "m", "e", "n", "t">>>>],
   [key |-> <<"c", "h", "o", "r", "e">>,
    label |-> <<"C", "h", "o", "r", "e", " ", "/", " ", "M", "a", "i", "n", "t", "e", "n", "a", "n", "c", "e">>,
    aliases |-> <<<<"m", "a", "i", "n", "t", "e", "n", "a", "n", "c", "e">>,
                  <<"c", "h", "o", "r", "e", "_", "m", "a", "i", "n", "t", "e", "n", "a", "n", "c", "e">>>>],
   [key |-> <<"q", "a">>,
    label |-> <<"Q", "A", " ", "/", " ", "T", "e", "s", "t", " ", "C", "a", "s", "e">>,
    aliases |-> <<<<"t", "e", "s", "t", "_", "c", "a", "s", "e">>,
                  <<"q", "a", " ", "t", "e", "s", "t", " ", "c", "a", "s", "e">>,
                  <<"q", "a", "_", "t", "e", "s", "t", "_", "c", "a", "s", "e">>,
                  <<"t", "e", "s", "t", "c", "a", "s", "e">>>>],
   [key |-> <<"d", "o", "c", "u", "m", "e", "n", "t", "a", "t", "i", "o", "n">>,
    label |-> <<"D", "o", "c", "u", "m", "e", "n", "t", "a", "t", "i", "o", "n">>,
    aliases |-> <<<<"d", "o", "c", "s">>>>]
  >>

ISSUE_TYPE_LIST == ISSUE_TYPES_DEFINITION

ISSUE_TYPE_KEYS == [i \in 1..Len(ISSUE_TYPE_LIST) |-> ISSUE_TYPE_LIST[i].key]

\* the validator's own list of keys
ISSUE_TYPES ==
  <<<<"b", "u", "g">>,
    <<"s", "t", "o", "r", "y">>,
    <<"t", "a", "s", "k">>,
    <<"s", "p", "i", "k", "e">>,
    <<"t", "e", "c", "h", "n", "i", "c", "a", "l", "_", "d", "e", "b", "t">>,
    <<"e", "p", "i", "c">>,
    <<"i", "m", "p", "r", "o", "v", "e", "m", "e", "n", "t">>,
    <<"c", "h", "o", "r", "e">>,
    <<"q", "a">>,
    <<"d", "o", "c", "u", "m", "e", "n", "t", "a", "t", "i", "o", "n">>>>

Includes(list, x) == \E i \in 1..Len(list) : list[i] = x

\* .replace(/_+/g, '_')
RECURSIVE collapseUnderscores(_)
collapseUnderscores(s) ==
  IF Len(s) < 2 THEN s
  ELSE IF s[1] = "_" /\ s[2] = "_" THEN collapseUnderscores(Tail(s))
  ELSE <<s[1]>> \o collapseUnderscores(Tail(s))

\* .replace(/^_|_$/g, '')
stripEdgeUnderscore(s) ==
  LET a == IF s # <<>> /\ s[1] = "_" THEN Tail(s) ELSE s
  IN IF a # <<>> /\ a[Len(a)] = "_" THEN SubSeq(a, 1, Len(a) - 1) ELSE a

normalizeToken_noFold(raw) ==
  LET under == [i \in 1..Len(raw) |-> IF raw[i] \in LowerCase THEN raw[i] ELSE "_"]
  IN stripEdgeUnderscore(collapseUnderscores(under))

normalizeToken(raw) ==
  LET lower == toLowerCase(raw)
      under == [i \in 1..Len(lower) |->
                  IF lower[i] \in LowerCase THEN lower[i] ELSE "_"]
  IN stripEdgeUnderscore(collapseUnderscores(under))

RECURSIVE aliasEntries_keysOnly(_)
aliasEntries_keysOnly(i) ==
  IF i > Len(ISSUE_TYPE_LIST) THEN <<>>
  ELSE <<[token |-> normalizeToken(ISSUE_TYPE_LIST[i].key), key |-> ISSUE_TYPE_LIST[i].key]>>
         \o aliasEntries_keysOnly(i + 1)

\* the (token, key) pairs in the order the registry loop sets them
RECURSIVE aliasEntries(_)
aliasEntries(i) ==
  IF i > Len(ISSUE_TYPE_LIST) THEN <<>>
  ELSE LET meta == ISSUE_TYPE_LIST[i]
           names == <<meta.key, meta.label>> \o meta.aliases
           pairs == [j \in 1..Len(names) |->
                       [token |-> normalizeToken(names[j]), key |-> meta.key]]
       IN SelectSeq(pairs, LAMBDA p : p.token # <<>>) \o aliasEntries(i + 1)

ISSUE_TYPE_ALIAS_ENTRIES == aliasEntries(1)

\* Map.get after the sets above: the last entry of a token wins
ISSUE_TYPE_ALIAS_MAP(token) ==
  LET hits == {i \in 1..Len(ISSUE_TYPE_ALIAS_ENTRIES) :
                 ISSUE_TYPE_ALIAS_ENTRIES[i].token = token}
  IN IF hits = {} THEN Null
     ELSE Str(ISSUE_TYPE_ALIAS_ENTRIES[CHOOSE i \in hits : \A j \in hits : j <= i].key)

normalizeIssueType(value) ==
  IF ~isString(value) THEN Null
  ELSE ISSUE_TYPE_ALIAS_MAP(normalizeToken(value.v))


\* ------------------------------------------------- parsed JSON documents
DocFields ==
  {"status", "reason", "clarificationRequest", "missing_info_prompt",
   "suggestedIssueType", "missingSections", "title", "issueType", "type",
   "scope", "description", "priority", "severity", "labels", "components",
   "epicLink", "parent", "dependencies", "estimate", "riskAreas",
   "dataSensitivity", "acceptanceCriteria", "multiItem"}

\* an object none of whose fields is set
EmptyObject == [f \in DocFields |-> Undef]

\* an object literal: the fields of r, every other field undefined
Obj(r) == [t |-> "object", v |-> r @@ EmptyObject]

\* property access o.f; a property of a number, string or array is undefined
Get(o, f) == IF o.t = "object" THEN o.v[f] ELSE Undef

\* `!raw || typeof raw !== 'object'` is false: arrays and objects
isObjectLike(x) == x.t \in {"object", "array"}

s_enough == <<"e", "n", "o", "u", "g", "h">>

s_not_enough == <<"n", "o", "t", "_", "e", "n", "o", "u", "g", "h">>

s_done == <<"d", "o", "n", "e">>

s_needs_info == <<"n", "e", "e", "d", "s", "_", "i", "n", "f", "o">>

s_error == <<"e", "r", "r", "o", "r">>

s_highest == <<"h", "i", "g", "h", "e", "s", "t">>

s_high == <<"h", "i", "g", "h">>

s_medium == <<"m", "e", "d", "i", "u", "m">>

s_low == <<"l", "o", "w">>

s_critical == <<"c", "r", "i", "t", "i", "c", "a", "l">>

s_major == <<"m", "a", "j", "o", "r">>

s_minor == <<"m", "i", "n", "o", "r">>

s_trivial == <<"t", "r", "i", "v", "i", "a", "l">>

s_none == <<"n", "o", "n", "e">>

s_contains_pii == <<"c", "o", "n", "t", "a", "i", "n", "s", "-", "p", "i", "i">>

s_contains_financial == <<"c", "o", "n", "t", "a", "i", "n", "s", "-", "f", "i", "n", "a", "n", "c", "i", "a", "l">>

s_unknown == <<"u", "n", "k", "n", "o", "w", "n">>

PRIORITIES == <<s_highest, s_high, s_medium, s_low>>

SEVERITIES == <<s_critical, s_major, s_minor, s_trivial>>

DATA_SENSITIVITIES == <<s_none, s_contains_pii, s_contains_financial, s_unknown>>

\* [...].includes(x) for a list of strings and any value x
IncludesStr(list, x) == isString(x) /\ Includes(list, x.v)

REQUIRED_STRINGS == <<"title", "issueType", "scope", "description">>

firstMissingRequired_noTrim(raw) ==
  LET bad == {i \in 1..Len(REQUIRED_STRINGS) :
                LET val == Get(raw, REQUIRED_STRINGS[i])
                IN ~isString(val) \/ val.v = <<>>}
  IN IF bad = {} THEN 0 ELSE CHOOSE i \in bad : \A j \in bad : i <= j

\* the first required string that is missing, not a string or blank (0: none)
firstMissingRequired(raw) ==
  LET bad == {i \in 1..Len(REQUIRED_STRINGS) :
                LET val == Get(raw, REQUIRED_STRINGS[i])
                IN ~isString(val) \/ trim(val.v) = <<>>}
  IN IF bad = {} THEN 0 ELSE CHOOSE i \in bad : \A j \in bad : i <= j

notEnoughResult_bare(raw) ==
  [status |-> Str(s_not_enough),
   reason |-> Get(raw, "reason"),
   clarificationRequest |-> Get(raw, "clarificationRequest"),
   suggestedIssueType |->
     IF IncludesStr(ISSUE_TYPES, Get(raw, "suggestedIssueType"))
       THEN Get(raw, "suggestedIssueType") ELSE Null,
   missingSections |->
     IF isStringArray(Get(raw, "missingSections"))
       THEN Get(raw, "missingSections") ELSE Arr(<<>>),
   title |-> Undef,
   issueType |->
     IF IncludesStr(ISSUE_TYPES, Get(raw, "issueType"))
       THEN Get(raw, "issueType") ELSE Undef,
   scope |-> IF isString(Get(raw, "scope")) THEN Get(raw, "scope") ELSE Undef,
   description |->
     IF isString(Get(raw, "description")) THEN Get(raw, "description") ELSE Undef,
   acceptanceCriteria |->
     IF isStringArray(Get(raw, "acceptanceCriteria"))
       THEN Get(raw, "acceptanceCriteria") ELSE Undef,
   priority |-> IF Nullish(Get(raw, "priority")) THEN Undef ELSE Get(raw, "priority"),
   severity |-> IF Nullish(Get(raw, "severity")) THEN Undef ELSE Get(raw, "severity"),
   labels |-> IF isStringArray(Get(raw, "labels")) THEN Get(raw, "labels") ELSE Undef,
   components |->
     IF isStringArray(Get(raw, "components")) THEN Get(raw, "components") ELSE Undef,
   epicLink |-> IF Nullish(Get(raw, "epicLink")) THEN Undef ELSE Get(raw, "epicLink"),
   parent |-> IF Nullish(Get(raw, "parent")) THEN Undef ELSE Get(raw, "parent"),
   dependencies |->
     IF isStringArray(Get(raw, "dependencies")) THEN Get(raw, "dependencies") ELSE Undef,
   estimate |-> IF Nullish(Get(raw, "estimate")) THEN Undef ELSE Get(raw, "estimate"),
   riskAreas |->
     IF isStringArray(Get(raw, "riskAreas")) THEN Get(raw, "riskAreas") ELSE Undef,
   dataSensitivity |->
     IF Nullish(Get(raw, "dataSensitivity")) THEN Undef ELSE Get(raw, "dataSensitivity"),
   multiItem |->
     IF Get(raw, "multiItem").t = "boolean" THEN Get(raw, "multiItem") ELSE Undef]

notEnoughResult(raw) ==
  [status |-> Str(s_not_enough),
   reason |-> Get(raw, "reason"),
   clarificationRequest |-> Get(raw, "clarificationRequest"),
   suggestedIssueType |->
     IF IncludesStr(ISSUE_TYPES, Get(raw, "suggestedIssueType"))
       THEN Get(raw, "suggestedIssueType") ELSE Null,
   missingSections |->
     IF isStringArray(Get(raw, "missingSections"))
       THEN Get(raw, "missingSections") ELSE Arr(<<>>),
   title |-> IF isString(Get(raw, "title")) THEN Get(raw, "title") ELSE Undef,
   issueType |->
     IF IncludesStr(ISSUE_TYPES, Get(raw, "issueType"))
       THEN Get(raw, "issueType") ELSE Undef,
   scope |-> IF isString(Get(raw, "scope")) THEN Get(raw, "scope") ELSE Undef,
   description |->
     IF isString(Get(raw, "description")) THEN Get(raw, "description") ELSE Undef,
   acceptanceCriteria |->
     IF isStringArray(Get(raw, "acceptanceCriteria"))
       THEN Get(raw, "acceptanceCriteria") ELSE Undef,
   priority |-> IF Nullish(Get(raw, "priority")) THEN Undef ELSE Get(raw, "priority"),
   severity |-> IF Nullish(Get(raw, "severity")) THEN Undef ELSE Get(raw, "severity"),
   labels |-> IF isStringArray(Get(raw, "labels")) THEN Get(raw, "labels") ELSE Undef,
   components |->
     IF isStringArray(Get(raw, "components")) THEN Get(raw, "components") ELSE Undef,
   epicLink |-> IF Nullish(Get(raw, "epicLink")) THEN Undef ELSE Get(raw, "epicLink"),
   parent |-> IF Nullish(Get(raw, "parent")) THEN Undef ELSE Get(raw, "parent"),
   dependencies |->
     IF isStringArray(Get(raw, "dependencies")) THEN Get(raw, "dependencies") ELSE Undef,
   estimate |-> IF Nullish(Get(raw, "estimate")) THEN Undef ELSE Get(raw, "estimate"),
   riskAreas |->
     IF isStringArray(Get(raw, "riskAreas")) THEN Get(raw, "riskAreas") ELSE Undef,
   dataSensitivity |->
     IF Nullish(Get(raw, "dataSensitivity")) THEN Undef ELSE Get(raw, "dataSensitivity"),
   multiItem |->
     IF Get(raw, "multiItem").t = "boolean" THEN Get(raw, "multiItem") ELSE Undef]

enoughResult_anyPriority(raw) ==
  [status |-> Str(s_enough),
   title |-> Get(raw, "title"),
   issueType |-> Get(raw, "issueType"),
   scope |-> Get(raw, "scope"),
   priority |->
     IF isString(Get(raw, "priority")) THEN Get(raw, "priority") ELSE Null,
   severity |->
     IF IncludesStr(SEVERITIES, Get(raw, "severity")) THEN Get(raw, "severity") ELSE Null,
   labels |-> IF isStringArray(Get(raw, "labels")) THEN Get(raw, "labels") ELSE Arr(<<>>),
   components |->
     IF isStringArray(Get(raw, "components")) THEN Get(raw, "components") ELSE Arr(<<>>),
   epicLink |-> IF isString(Get(raw, "epicLink")) THEN Get(raw, "epicLink") ELSE Null,
   parent |-> IF isString(Get(raw, "parent")) THEN Get(raw, "parent") ELSE Null,
   dependencies |->
     IF isStringArray(Get(raw, "dependencies")) THEN Get(raw, "dependencies") ELSE Arr(<<>>),
   estimate |-> IF isString(Get(raw, "estimate")) THEN Get(raw, "estimate") ELSE Null,
   riskAreas |->
     IF isStringArray(Get(raw, "riskAreas")) THEN Get(raw, "riskAreas") ELSE Arr(<<>>),
   dataSensitivity |->
     IF IncludesStr(DATA_SENSITIVITIES, Get(raw, "dataSensitivity"))
       THEN Get(raw, "dataSensitivity") ELSE Str(s_unknown),
   acceptanceCriteria |->
     IF isStringArray(Get(raw, "acceptanceCriteria"))
       THEN Get(raw, "acceptanceCriteria") ELSE Arr(<<>>),
   multiItem |->
     IF Get(raw, "multiItem").t = "boolean" THEN Get(raw, "multiItem") ELSE Bool(FALSE),
   description |-> Get(raw, "description")]

enoughResult(raw) ==
  [status |-> Str(s_enough),
   title |-> Get(raw, "title"),
   issueType |-> Get(raw, "issueType"),
   scope |-> Get(raw, "scope"),
   priority |->
     IF IncludesStr(PRIORITIES, Get(raw, "priority")) THEN Get(raw, "priority") ELSE Null,
   severity |->
     IF IncludesStr(SEVERITIES, Get(raw, "severity")) THEN Get(raw, "severity") ELSE Null,
   labels |-> IF isStringArray(Get(raw, "labels")) THEN Get(raw, "labels") ELSE Arr(<<>>),
   components |->
     IF isStringArray(Get(raw, "components")) THEN Get(raw, "components") ELSE Arr(<<>>),
   epicLink |-> IF isString(Get(raw, "epicLink")) THEN Get(raw, "epicLink") ELSE Null,
   parent |-> IF isString(Get(raw, "parent")) THEN Get(raw, "parent") ELSE Null,
   dependencies |->
     IF isStringArray(Get(raw, "dependencies")) THEN Get(raw, "dependencies") ELSE Arr(<<>>),
   estimate |-> IF isString(Get(raw, "estimate")) THEN Get(raw, "estimate") ELSE Null,
   riskAreas |->
     IF isStringArray(Get(raw, "riskAreas")) THEN Get(raw, "riskAreas") ELSE Arr(<<>>),
   dataSensitivity |->
     IF IncludesStr(DATA_SENSITIVITIES, Get(raw, "dataSensitivity"))
       THEN Get(raw, "dataSensitivity") ELSE Str(s_unknown),
   acceptanceCriteria |->
     IF isStringArray(Get(raw, "acceptanceCriteria"))
       THEN Get(raw, "acceptanceCriteria") ELSE Arr(<<>>),
   multiItem |->
     IF Get(raw, "multiItem").t = "boolean" THEN Get(raw, "multiItem") ELSE Bool(FALSE),
   description |-> Get(raw, "description")]

\* a ParseResult: ok, the error text, and the value as an object
ParseFail(err) == [ok |-> FALSE, error |-> err, value |-> Undef]

ParseOk(r) == [ok |-> TRUE, error |-> "", value |-> Obj(r)]

parseIssueGenerationResult(raw) ==
  IF ~isObjectLike(raw) THEN ParseFail("Not an object")
  ELSE IF Get(raw, "status") \notin {Str(s_enough), Str(s_not_enough)}
    THEN ParseFail("Invalid status")
  ELSE IF Get(raw, "status") = Str(s_not_enough)
    THEN IF ~isString(Get(raw, "reason")) \/ ~isString(Get(raw, "clarificationRequest"))
           THEN ParseFail("Missing reason or clarificationRequest")
           ELSE ParseOk(notEnoughResult(raw))
  ELSE IF firstMissingRequired(raw) # 0
    THEN ParseFail("Missing or invalid required string")
  ELSE IF ~IncludesStr(ISSUE_TYPES, Get(raw, "issueType"))
    THEN ParseFail("Unknown issueType")
  ELSE ParseOk(enoughResult(raw))


\* ------------------------------------------------------ completion texts
\* The text of a model output: what it says (body) and the syntax defects
\* the pipeline repairs or trips over.  fence: Markdown code-fence
\* delimiters around the body; ctl: a raw control character inside a JSON
\* string literal; comma: a trailing comma before a closing brace.
\* body.k is "empty" (no characters), "blank" (white space only), "prose"
\* (the characters body.s, not JSON) or "json" (the JSON text of body.doc).
Body(k, s, doc) == [k |-> k, s |-> s, doc |-> doc]

Text(fence, ctl, comma, body) ==
  [fence |-> fence, ctl |-> ctl, comma |-> comma, body |-> body]

\* the string ''
EmptyText == Text(FALSE, FALSE, FALSE, Body("empty", <<>>, Undef))

Plain(body) == Text(FALSE, FALSE, FALSE, body)

JsonText(doc) == Plain(Body("json", <<>>, doc))

ProseText(s) == Plain(Body("prose", s, Undef))

\* a JavaScript string whose characters are a completion text
TextStr(x) == [t |-> "text", v |-> x]

isTextString(x) == x.t = "text"

\* String.prototype.trim on a text
trimText(x) ==
  IF x.body.k = "blank" /\ ~x.fence
    THEN [x EXCEPT !.body = Body("empty", <<>>, Undef)]
    ELSE x

\* raw.replace(/```(json)?\n?/gi, '')
stripJsonFences(raw) == [raw EXCEPT !.fence = FALSE]

escapeControlCharactersInJsonStrings(jsonCandidate) ==
  [jsonCandidate EXCEPT !.ctl = FALSE]

\* legacy and two-phase handlers
sanitizeCompletionJson(raw) ==
  escapeControlCharactersInJsonStrings(trimText(stripJsonFences(raw)))

\* jsonString.replace(/```\w*\s*/g, '').replace(/```/g, '').trim()
removeJsonCodeFences(jsonString) == trimText([jsonString EXCEPT !.fence = FALSE])

escapeControlCharacters(jsonString) == [jsonString EXCEPT !.ctl = FALSE]

\* clarification-loop handler (server/utils/json-sanitizer)
sanitizeJsonResponse(jsonString) ==
  escapeControlCharacters(removeJsonCodeFences(jsonString))

\* JSON.parse: [ok, value]
JsonParse(x) ==
  IF ~x.fence /\ ~x.ctl /\ ~x.comma /\ x.body.k = "json"
    THEN [ok |-> TRUE, value |-> x.body.doc]
    ELSE [ok |-> FALSE, value |-> Null]

\* input.replace(/,(\s*[}\]])/g, '$1').trim()
fixTrailingCommas(input) == trimText([input EXCEPT !.comma = FALSE])

\* parseJson of the clarification-loop handler: the value, or null
parseJson(input) ==
  IF JsonParse(input).ok THEN JsonParse(input).value
  ELSE IF fixTrailingCommas(input) # input /\ JsonParse(fixTrailingCommas(input)).ok
    THEN JsonParse(fixTrailingCommas(input)).value
  ELSE Null

\* ----------------------------------------------------- completion choices
\* res.choices[0]: hasMessage is FALSE when the choice or its message is
\* missing; content and refusal are a text string, null or undefined;
\* tool_calls is a list of [type, arguments].
Choice(content, tool_calls, refusal) ==
  [hasMessage |-> TRUE, content |-> content, tool_calls |-> tool_calls,
   refusal |-> refusal]

NoMessage ==
  [hasMessage |-> FALSE, content |-> Undef, tool_calls |-> <<>>, refusal |-> Undef]

ToolCall(type, arguments) == [type |-> type, arguments |-> arguments]

\* flatten / flattenMessageContent for a string, null or undefined content
flatten(content) == IF isTextString(content) THEN content.v ELSE EmptyText

flattenMessageContent(content) == IF isTextString(content) THEN content.v ELSE EmptyText

\* s.trim() is truthy
nonBlank(x) == trimText(x) # EmptyText

firstToolCall_last(tool_calls) ==
  LET hits == {i \in 1..Len(tool_calls) :
                 /\ tool_calls[i].type = "function"
                 /\ isTextString(tool_calls[i].arguments)
                 /\ nonBlank(tool_calls[i].arguments.v)}
  IN IF hits = {} THEN 0 ELSE CHOOSE i \in hits : \A j \in hits : j <= i

\* the first function-type tool call whose arguments are a non-blank string
firstToolCall(tool_calls) ==
  LET hits == {i \in 1..Len(tool_calls) :
                 /\ tool_calls[i].type = "function"
                 /\ isTextString(tool_calls[i].arguments)
                 /\ nonBlank(tool_calls[i].arguments.v)}
  IN IF hits = {} THEN 0 ELSE CHOOSE i \in hits : \A j \in hits : i <= j

HttpError(code, msg) == [statusCode |-> code, message |-> msg]

NoError == HttpError(0, "")

\* an extraction result: the payload {raw, cleaned} or the error thrown
Extracted(raw, cleaned) == [ok |-> TRUE, raw |-> raw, cleaned |-> cleaned, err |-> NoError]

ExtractFail(err) == [ok |-> FALSE, raw |-> EmptyText, cleaned |-> EmptyText, err |-> err]

\* legacy and two-phase handlers
extractCompletionPayload(choice) ==
  IF ~choice.hasMessage
    THEN ExtractFail(HttpError(502, "Missing assistant message"))
  ELSE IF nonBlank(flattenMessageContent(choice.content))
    THEN Extracted(flattenMessageContent(choice.content),
                   sanitizeCompletionJson(flattenMessageContent(choice.content)))
  ELSE IF firstToolCall(choice.tool_calls) # 0
    THEN LET args == choice.tool_calls[firstToolCall(choice.tool_calls)].arguments.v
         IN Extracted(args, sanitizeCompletionJson(args))
  ELSE IF isTextString(choice.refusal) /\ nonBlank(choice.refusal.v)
    THEN ExtractFail(HttpError(502, "OpenAI refused"))
  ELSE ExtractFail(HttpError(502, "Empty response from OpenAI"))

\* clarification-loop handler: returns the sanitized text only
extractPayload(choice) ==
  IF ~choice.hasMessage
    THEN ExtractFail(HttpError(502, "Missing assistant message"))
  ELSE IF nonBlank(flatten(choice.content))
    THEN Extracted(flatten(choice.content), sanitizeJsonResponse(flatten(choice.content)))
  ELSE IF firstToolCall(choice.tool_calls) # 0
    THEN LET args == choice.tool_calls[firstToolCall(choice.tool_calls)].arguments.v
         IN Extracted(args, sanitizeJsonResponse(args))
  ELSE IF isTextString(choice.refusal) /\ nonBlank(choice.refusal.v)
    THEN ExtractFail(HttpError(502, "OpenAI refused request"))
  ELSE ExtractFail(HttpError(502, "Empty response from OpenAI"))

\* /^\[[A-Z0-9+-]+\]:/.test(title)
TitleTagChars ==
  UpperCase \cup {"0", "1", "2", "3", "4", "5", "6", "7", "8", "9", "+", "-"}

titleMatches(s) ==
  \E k \in 3..Len(s) - 1 :
    /\ s[1] = "["
    /\ \A i \in 2..k - 1 : s[i] \in TitleTagChars
    /\ s[k] = "]"
    /\ s[k + 1] = ":"

MIN_DESCRIPTION_LENGTH == 40

isValidJiraTask(candidate) ==
  /\ Truthy(candidate)
  /\ isString(Get(candidate, "title")) /\ titleMatches(Get(candidate, "title").v)
  /\ isString(Get(candidate, "description"))
  /\ Len(Get(candidate, "description").v) >= MIN_DESCRIPTION_LENGTH


\* ------------------------------------------------------------- messages
UpperOf ==
  [a |-> "A", b |-> "B", c |-> "C", d |-> "D", e |-> "E", f |-> "F",
   g |-> "G", h |-> "H", i |-> "I", j |-> "J", k |-> "K", l |-> "L",
   m |-> "M", n |-> "N", o |-> "O", p |-> "P", q |-> "Q", r |-> "R",
   s |-> "S", t |-> "T", u |-> "U", v |-> "V", w |-> "W", x |-> "X",
   y |-> "Y", z |-> "Z"]

\* String.prototype.toUpperCase
toUpperCase(s) ==
  [i \in 1..Len(s) |-> IF s[i] \in LowerCase THEN UpperOf[s[i]] ELSE s[i]]

\* Array.prototype.join for a list of strings
RECURSIVE join(_, _)
join(list, sep) ==
  IF list = <<>> THEN <<>>
  ELSE IF Len(list) = 1 THEN list[1]
  ELSE list[1] \o sep \o join(Tail(list), sep)

\* .replace(/\s+/g, ' ')
RECURSIVE collapseWhiteSpace(_)
collapseWhiteSpace(s) ==
  IF s = <<>> THEN <<>>
  ELSE IF s[1] \in WhiteSpace
    THEN IF Len(s) > 1 /\ s[2] \in WhiteSpace
           THEN collapseWhiteSpace(Tail(s))
           ELSE <<" ">> \o collapseWhiteSpace(Tail(s))
  ELSE <<s[1]>> \o collapseWhiteSpace(Tail(s))

Message(role, content) == [role |-> role, content |-> content]

\* a fixed prompt text, by the name of its constant or template
Fixed(name) == [t |-> "fixed", v |-> <<name>>]

\* a rendered template: its name and the values put into it
Rendered(name, text, clarifications, prefix) ==
  [t |-> "rendered",
   v |-> [name |-> name, text |-> text, clarifications |-> clarifications,
          prefix |-> prefix]]

scopePrefix_asGiven(scope) == join(scope, <<"+">>)

\* the title prefix of a scope list (a list of strings)
scopePrefix(scope) == join([i \in 1..Len(scope) |-> toUpperCase(scope[i])], <<"+">>)

\* legacy and two-phase handlers; text is the context put under "Input:"
buildPrompt(text, scopes) ==
  Rendered("buildPrompt", text, <<>>,
           IF Len(scopes) > 1 THEN scopePrefix(scopes) ELSE toUpperCase(scopes[1]))

buildSufficiencyPrompt(text, clarifications, scopes) ==
  Rendered("buildSufficiencyPrompt", text, clarifications, join(scopes, <<",", " ">>))

\* buildIssueContext(appendClarifications(text, clarifications), scope)
buildIssueContext(text, clarifications, scope) ==
  Rendered("issue", text, clarifications, scopePrefix(scope))

buildClarificationUserPrompt(text, prev) ==
  Rendered("clarification-user", text, prev, <<>>)

RETRY_INSTRUCTION == Fixed("Your previous output was invalid JSON.")

buildRetryMessages(baseMessages, assistantRaw) ==
  baseMessages \o <<Message("assistant", TextStr(assistantRaw)),
                    Message("user", RETRY_INSTRUCTION)>>

SUFFICIENCY_RETRY_INSTRUCTION == Fixed("Return only a JSON object with status")

buildSufficiencyRetryMessages(baseMessages, assistantRaw) ==
  baseMessages \o <<Message("assistant", TextStr(assistantRaw)),
                    Message("user", SUFFICIENCY_RETRY_INSTRUCTION)>>

\* ------------------------------------------------------------- requests
MAX_CLARIFICATIONS == 3

MAX_CLARIFICATION_ROUNDS == 3

DEFAULT_SCOPE_KEY == <<"u", "i">>

s_api == <<"a", "p", "i">>

REQUEST_TEXT == <<"a", "p", "p", " ", " ", "c", "r", "a", "s", "h", "e", "s">>

s_blank == <<" ">>

CLARIFICATION_ENTRY == <<"a", " ">>

API_KEY == <<"k">>

DEFAULT_REASON == <<"M", "o", "r", "e", " ", "d", "e", "t", "a", "i", "l", " ", "i", "s", " ", "n", "e", "e", "d", "e", "d", ".">>

DEFAULT_QUESTION == <<"C", "o", "u", "l", "d", " ", "y", "o", "u", " ", "p", "r", "o", "v", "i", "d", "e", " ", "m", "o", "r", "e", " ", "d", "e", "t", "a", "i", "l", " ", "a", "b", "o", "u", "t", " ", "w", "h", "a", "t", " ", "i", "s", " ", "m", "i", "s", "s", "i", "n", "g", "?">>

TWO_PHASE_DEFAULT_REASON == <<"M", "o", "r", "e", " ", "d", "e", "t", "a", "i", "l", " ", "i", "s", " ", "r", "e", "q", "u", "i", "r", "e", "d", " ", "t", "o", " ", "d", "r", "a", "f", "t", " ", "a", " ", "u", "s", "e", "f", "u", "l", " ", "J", "i", "r", "a", " ", "i", "s", "s", "u", "e", ".">>

TWO_PHASE_DEFAULT_QUESTION == <<"W", "h", "a", "t", " ", "a", "d", "d", "i", "t", "i", "o", "n", "a", "l", " ", "d", "e", "t", "a", "i", "l", "s", " ", "w", "o", "u", "l", "d", " ", "c", "l", "a", "r", "i", "f", "y", " ", "t", "h", "e", " ", "i", "s", "s", "u", "e", "?">>

MAX_ROUNDS_REASON == <<"R", "e", "a", "c", "h", "e", "d", " ", "t", "h", "e", " ", "m", "a", "x", "i", "m", "u", "m", " ", "n", "u", "m", "b", "e", "r", " ", "o", "f", " ", "c", "l", "a", "r", "i", "f", "i", "c", "a", "t", "i", "o", "n", " ", "r", "o", "u", "n", "d", "s", " ", "(", "3", ")", ".">>

\* the request bodies served: text, scope and previousClarifications are
\* values as they arrive (undefined when the field is absent); apiKey is the
\* credential the server is configured with ("" when none)
ClarificationLists ==
  UNION {[1..n -> {Str(s_blank), Str(CLARIFICATION_ENTRY)}] : n \in 0..MaxClar}

Requests ==
  [text : {Undef, Str(s_blank), Str(REQUEST_TEXT)},
   scope : {Undef, Str(s_api), Arr(<<>>), Arr(<<Str(DEFAULT_SCOPE_KEY), Str(s_api)>>)},
   previousClarifications : {Undef} \cup {Arr(l) : l \in ClarificationLists},
   apiKey : {<<>>, API_KEY}]

\* the strings of an array of strings
Strings(arr) == [i \in 1..Len(arr.v) |-> arr.v[i].v]

normalizeClarifications_keepBlank(c) ==
  IF ~isArray(c) THEN <<>> ELSE [i \in 1..Len(c.v) |-> trim(c.v[i].v)]

\* normalize.clarifications: trimmed, blank entries dropped
normalizeClarifications(c) ==
  IF ~isArray(c) THEN <<>>
  ELSE SelectSeq([i \in 1..Len(c.v) |-> trim(c.v[i].v)], LAMBDA s : s # <<>>)

normalizeScope_defaultApi(s) ==
  IF isArray(s) /\ Len(s.v) > 0 THEN Strings(s) ELSE <<s_api>>

\* normalize.scope
normalizeScope(s) ==
  IF isArray(s) /\ Len(s.v) > 0 THEN Strings(s) ELSE <<DEFAULT_SCOPE_KEY>>


\* ------------------------------------------------------- upstream outputs
\* What one completion call can come back with: a choice, or an error of
\* the client library.
\* status: the HTTP status of a library error (0 when it has none).
Returned(choice) == [kind |-> "choice", choice |-> choice, status |-> 0]

Failed(kind, status) == [kind |-> kind, choice |-> NoMessage, status |-> status]

API_ERRORS ==
  {Failed("AuthenticationError", 401), Failed("RateLimitError", 429),
   Failed("APIError", 0), Failed("APIError", 503)}

Content(x) == Choice(TextStr(x), <<>>, Undef)

TITLE_OK == <<"[", "U", "I", "]", ":", " ", "x">>

TITLE_PLAIN == <<"x">>

DESCRIPTION_SHORT == <<"d">>

s_bug == <<"b", "u", "g">>

s_Bug == <<"B", "u", "g">>

s_defect == <<"d", "e", "f", "e", "c", "t">>

s_BUG == <<"B", "U", "G">>

s_User_Story == <<" ", "U", "s", "e", "r", " ", "-", " ", "S", "t", "o", "r", "y", "!">>

s_story == <<"s", "t", "o", "r", "y">>

s_unknown_type == <<"z", "z">>

REASON == <<"r">>

QUESTION == <<"q", "?">>

QUESTION_PADDED == <<" ", "q", "?", " ">>

LEGACY_QUESTION == <<"m", "?">>

s_frontend == <<"f", "e">>

s_estimate == <<"3", "d">>

DESCRIPTION_OK == [i \in 1..MIN_DESCRIPTION_LENGTH |-> "d"]

\* the ways one JSON document arrives: as plain content, inside a code
\* fence, with a raw newline inside a string, with a trailing comma, as the
\* arguments of a function tool call (after a tool call of another type and
\* one with blank arguments, before another function tool call), as content
\* next to a tool call and a refusal, and as a tool call next to blank
\* content and a refusal
Deliveries(doc) ==
  {Content(JsonText(doc)),
   Content(Text(TRUE, FALSE, FALSE, Body("json", <<>>, doc))),
   Content(Text(FALSE, TRUE, FALSE, Body("json", <<>>, doc))),
   Content(Text(FALSE, FALSE, TRUE, Body("json", <<>>, doc))),
   Choice(Null, <<ToolCall("custom", TextStr(JsonText(Num))),
                  ToolCall("function", TextStr(Plain(Body("blank", <<>>, Undef)))),
                  ToolCall("function", TextStr(JsonText(doc))),
                  ToolCall("function", TextStr(JsonText(Num)))>>, Undef),
   Choice(TextStr(JsonText(doc)), <<ToolCall("function", TextStr(JsonText(Num)))>>,
          TextStr(ProseText(REASON))),
   Choice(TextStr(Plain(Body("blank", <<>>, Undef))),
          <<ToolCall("function", TextStr(Text(TRUE, FALSE, FALSE, Body("json", <<>>, doc))))>>,
          TextStr(ProseText(REASON)))}

\* outputs that carry no JSON document
Degenerate ==
  {Content(ProseText(QUESTION)),
   Content(Text(TRUE, FALSE, FALSE, Body("empty", <<>>, Undef))),
   Choice(Null, <<>>, TextStr(ProseText(REASON))),
   Choice(TextStr(EmptyText), <<ToolCall("function", TextStr(EmptyText))>>,
          TextStr(Plain(Body("blank", <<>>, Undef)))),
   Choice(Undef, <<>>, Undef),
   NoMessage}

\* documents of the legacy schema {title, description}
LegacyDocs ==
  {Obj([title |-> Str(t), description |-> Str(d)]) :
     t \in {TITLE_OK, TITLE_PLAIN}, d \in {DESCRIPTION_OK, DESCRIPTION_SHORT}}
  \cup {Obj([description |-> Str(DESCRIPTION_OK)]), Null, Num}

LEGACY_VALID == Obj([title |-> Str(TITLE_OK), description |-> Str(DESCRIPTION_OK)])

LEGACY_INVALID == Obj([title |-> Str(TITLE_PLAIN), description |-> Str(DESCRIPTION_OK)])

\* outputs of the calls of generateJiraTask
GenerationOutputs ==
  {Returned(ch) : ch \in {Content(JsonText(d)) : d \in LegacyDocs}
                        \cup {Content(Text(TRUE, FALSE, FALSE, Body("json", <<>>, LEGACY_VALID)))}
                        \cup Deliveries(LEGACY_INVALID) \cup Degenerate}
  \cup API_ERRORS

\* the enrichment fields of an enough document: absent, valid, or present
\* with values outside their domains
NoEnrichment == [status |-> Undef]

ValidEnrichment ==
  [priority |-> Str(s_high), severity |-> Str(s_major),
   labels |-> Arr(<<Str(s_frontend)>>), components |-> Arr(<<Str(s_frontend)>>),
   epicLink |-> Str(s_estimate), parent |-> Str(s_estimate),
   dependencies |-> Arr(<<Str(s_estimate)>>), estimate |-> Str(s_estimate),
   riskAreas |-> Arr(<<Str(s_frontend)>>), dataSensitivity |-> Str(s_contains_pii),
   acceptanceCriteria |-> Arr(<<Str(REASON)>>), multiItem |-> Bool(TRUE)]

InvalidEnrichment ==
  [priority |-> Str(s_major), severity |-> Num,
   labels |-> Arr(<<Str(s_frontend), Num>>), components |-> Str(s_frontend),
   epicLink |-> Str(<<>>), parent |-> Null,
   dependencies |-> Null, estimate |-> Num,
   riskAreas |-> Num, dataSensitivity |-> Str(s_high),
   acceptanceCriteria |-> Arr(<<Num>>), multiItem |-> Str(s_high)]

EnoughDocs ==
  {Obj([title |-> Str(t), issueType |-> it, scope |-> Str(DEFAULT_SCOPE_KEY),
        description |-> Str(DESCRIPTION_OK)] @@ [e EXCEPT !.status = st]) :
     t \in {TITLE_OK, s_blank},
     it \in {Str(s_bug), Str(s_Bug), Str(s_BUG), Str(s_defect), Str(s_User_Story),
             Str(s_unknown_type), Undef},
     st \in {Str(s_enough), Str(s_done), Undef},
     e \in {NoEnrichment, ValidEnrichment @@ NoEnrichment,
            InvalidEnrichment @@ NoEnrichment}}
  \cup {Obj([status |-> Str(s_enough), title |-> Str(TITLE_OK), type |-> Str(s_Bug),
             scope |-> Str(DEFAULT_SCOPE_KEY), description |-> Str(DESCRIPTION_OK)]),
        Obj([status |-> Str(s_enough), title |-> Str(TITLE_OK), issueType |-> Str(s_bug),
             description |-> Str(DESCRIPTION_OK)]),
        Obj([status |-> Str(s_enough), title |-> Str(TITLE_OK), issueType |-> Str(s_bug),
             scope |-> Str(DEFAULT_SCOPE_KEY), description |-> Str(<<>>)])}
  \cup {Obj([[status |-> Str(s_enough), title |-> Str(TITLE_OK), issueType |-> Str(s_bug),
               scope |-> Str(DEFAULT_SCOPE_KEY), description |-> Str(DESCRIPTION_OK)]
                EXCEPT ![f] = bad]) :
          f \in {"title", "issueType", "scope", "description"},
          bad \in {Null, Num, Str(s_blank)}}

NotEnoughDocs ==
  {Obj([status |-> Str(s_not_enough), reason |-> r, clarificationRequest |-> q,
        missing_info_prompt |-> m]) :
     r \in {Undef, Str(<<>>), Str(REASON), Num},
     q \in {Undef, Str(<<>>), Str(s_blank), Str(QUESTION), Str(QUESTION_PADDED), Num},
     m \in {Undef, Str(LEGACY_QUESTION)}}
  \cup {Obj([status |-> Str(s_not_enough), reason |-> Str(REASON),
             clarificationRequest |-> Str(QUESTION), title |-> t,
             issueType |-> Str(s_bug), scope |-> Str(DEFAULT_SCOPE_KEY),
             description |-> Str(DESCRIPTION_OK), priority |-> Str(s_high)]) :
          t \in {Str(TITLE_OK), Num}}

ENOUGH_VALID ==
  Obj([status |-> Str(s_enough), title |-> Str(TITLE_OK), issueType |-> Str(s_bug),
       scope |-> Str(DEFAULT_SCOPE_KEY), description |-> Str(DESCRIPTION_OK)]
      @@ ValidEnrichment)

NOT_ENOUGH_VALID ==
  Obj([status |-> Str(s_not_enough), reason |-> Str(REASON),
       clarificationRequest |-> Str(QUESTION)])

NOT_ENOUGH_BARE == Obj([status |-> Str(s_not_enough)])

\* outputs of the primary call of the clarification-loop handler
PrimaryOutputs ==
  {Returned(ch) : ch \in {Content(JsonText(d)) :
                           d \in EnoughDocs \cup NotEnoughDocs \cup {Null, Num, Arr(<<>>)}}
                        \cup Deliveries(ENOUGH_VALID) \cup Deliveries(NOT_ENOUGH_VALID)
                        \cup Deliveries(NOT_ENOUGH_BARE) \cup Degenerate}
  \cup API_ERRORS

\* outputs of the clarification-only call
FallbackOutputs ==
  {Returned(ch) : ch \in Deliveries(NOT_ENOUGH_VALID) \cup Degenerate}
  \cup API_ERRORS

\* outputs of the sufficiency call of the two-phase handler
SufficiencyDocs ==
  {Obj([status |-> Str(s_not_enough), reason |-> r, missing_info_prompt |-> m]) :
     r \in {Undef, Str(REASON)},
     m \in {Undef, Str(<<>>), Str(LEGACY_QUESTION)}}
  \cup {Obj([status |-> Str(s_enough)]), Obj([reason |-> Str(REASON)]), Null, Num}

SufficiencyOutputs ==
  {Returned(ch) : ch \in {Content(JsonText(d)) : d \in SufficiencyDocs}
                        \cup Deliveries(Obj([status |-> Str(s_enough)]))
                        \cup Deliveries(NOT_ENOUGH_BARE) \cup Degenerate}
  \cup API_ERRORS


\* ------------------------------------------------------------ responses
RespFields ==
  {"status", "title", "description", "reason", "missingInfoPrompt", "issueType",
   "scope", "priority", "severity", "labels", "components", "epicLink", "parent",
   "dependencies", "estimate", "riskAreas", "dataSensitivity",
   "acceptanceCriteria", "multiItem"}

EmptyResp == [f \in RespFields |-> Undef]

\* the outcome of a request: nothing yet ("none"), a response body, an HTTP
\* error made with createError ("http"), or an error that left the handler
\* without being turned into one ("thrown")
Outcome(kind, body, err, thrown) ==
  [kind |-> kind, body |-> body, err |-> err, thrown |-> thrown]

NoResponse == Outcome("none", EmptyResp, NoError, "")

Respond(r) == Outcome("body", r @@ EmptyResp, NoError, "")

Reject(code, msg) == Outcome("http", EmptyResp, HttpError(code, msg), "")

Throw(name) == Outcome("thrown", EmptyResp, NoError, name)

\* the catch block of the legacy and two-phase handlers, for an error of
\* the client library
mapApiError(out) ==
  CASE out.kind = "AuthenticationError" -> Reject(500, "Invalid OpenAI API key")
    [] out.kind = "RateLimitError" -> Reject(429, "Rate limit exceeded")
    [] OTHER -> Reject(IF out.status # 0 THEN out.status ELSE 502, "OpenAI API error")

\* x?.trim() on a property: the trimmed string, undefined for a nullish
\* value, and a TypeError for a value that has no trim method
hasTrim(x) == Nullish(x) \/ isString(x)

trimmedOrUndef(x) == IF isString(x) THEN Str(trim(x.v)) ELSE Undef

\* the decision of handleNeedsInfo: a response, an error thrown, or the
\* clarification-only call ("fallback") with the reason to answer with
Decision(kind, response) == [kind |-> kind, response |-> response]

needsInfoReason_alwaysDefault(parsed) == Str(DEFAULT_REASON)

\* parsed.reason || 'More detail is needed.'
needsInfoReason(parsed) ==
  IF Truthy(Get(parsed, "reason")) THEN Get(parsed, "reason") ELSE Str(DEFAULT_REASON)

roundsExhausted_offByOne(prevClarifications) ==
  Len(prevClarifications) > MAX_CLARIFICATIONS

\* the round cap of handleNeedsInfo
roundsExhausted(prevClarifications) ==
  Len(prevClarifications) >= MAX_CLARIFICATIONS

handleNeedsInfo(parsed, prevClarifications) ==
  IF roundsExhausted(prevClarifications)
    THEN Decision("respond", Respond([status |-> Str(s_error), reason |-> Str(MAX_ROUNDS_REASON)]))
  ELSE IF ~hasTrim(Get(parsed, "clarificationRequest"))
    THEN Decision("respond", Throw("TypeError"))
  ELSE IF Truthy(trimmedOrUndef(Get(parsed, "clarificationRequest")))
    THEN Decision("respond",
                  Respond([status |-> Str(s_needs_info), reason |-> needsInfoReason(parsed),
                           missingInfoPrompt |-> trimmedOrUndef(Get(parsed, "clarificationRequest"))]))
  ELSE IF ~hasTrim(Get(parsed, "missing_info_prompt"))
    THEN Decision("respond", Throw("TypeError"))
  ELSE IF Truthy(trimmedOrUndef(Get(parsed, "missing_info_prompt")))
    THEN Decision("respond",
                  Respond([status |-> Str(s_needs_info), reason |-> needsInfoReason(parsed),
                           missingInfoPrompt |-> trimmedOrUndef(Get(parsed, "missing_info_prompt"))]))
  ELSE Decision("fallback",
                Respond([status |-> Str(s_needs_info), reason |-> needsInfoReason(parsed)]))

\* the not_enough branch of the clarification-loop handler: the object
\* handed to handleNeedsInfo
needsInfoArgument(parsed) ==
  LET enhanced == parseIssueGenerationResult(parsed)
  IN IF enhanced.ok /\ Get(enhanced.value, "status") = Str(s_not_enough)
       THEN Obj([reason |-> Get(enhanced.value, "reason"),
                 clarificationRequest |-> Get(enhanced.value, "clarificationRequest"),
                 missing_info_prompt |-> Get(parsed, "missing_info_prompt")])
       ELSE parsed

ENRICHED_FIELDS ==
  {"scope", "priority", "severity", "labels", "components", "epicLink", "parent",
   "dependencies", "estimate", "riskAreas", "dataSensitivity",
   "acceptanceCriteria", "multiItem"}

enhancedResponse_minimal(v) ==
  Respond([status |-> Str(s_done), title |-> Get(v, "title"),
           description |-> Get(v, "description"), issueType |-> Get(v, "issueType")])

\* the done response made of a validated enough value
enhancedResponse(v) ==
  Respond([f \in {"title", "description", "issueType"} \cup ENRICHED_FIELDS |-> Get(v, f)]
          @@ [status |-> Str(s_done)])

legacyResponse_unnormalized(rawObj) ==
  LET issueType ==
        IF Nullish(Get(rawObj, "issueType")) THEN Get(rawObj, "type")
                                             ELSE Get(rawObj, "issueType")
  IN IF ~Truthy(normalizeIssueType(issueType)) \/ ~Truthy(Get(rawObj, "title"))
          \/ ~Truthy(Get(rawObj, "description"))
       THEN Reject(502, "Unexpected AI response - missing required fields")
       ELSE Respond([status |-> Str(s_done), title |-> Get(rawObj, "title"),
                     description |-> Get(rawObj, "description"), issueType |-> issueType])

\* the fallback to the legacy structure
legacyResponse(rawObj) ==
  LET issueType ==
        normalizeIssueType(IF Nullish(Get(rawObj, "issueType"))
                             THEN Get(rawObj, "type") ELSE Get(rawObj, "issueType"))
  IN IF ~Truthy(issueType) \/ ~Truthy(Get(rawObj, "title"))
          \/ ~Truthy(Get(rawObj, "description"))
       THEN Reject(502, "Unexpected AI response - missing required fields")
       ELSE Respond([status |-> Str(s_done), title |-> Get(rawObj, "title"),
                     description |-> Get(rawObj, "description"), issueType |-> issueType])

handleJiraEnhanced(rawObj) ==
  LET parsedEnhanced == parseIssueGenerationResult(rawObj)
  IN IF parsedEnhanced.ok /\ Get(parsedEnhanced.value, "status") = Str(s_enough)
       THEN enhancedResponse(parsedEnhanced.value)
       ELSE legacyResponse(rawObj)

ensureValidSufficiency_statusOnly(result) ==
  Get(result, "status") \in {Str(s_enough), Str(s_not_enough)}

\* ensureValidSufficiency does not throw
ensureValidSufficiency(result) ==
  \/ Get(result, "status") = Str(s_enough)
  \/ Get(result, "status") = Str(s_not_enough) /\ Truthy(Get(result, "missing_info_prompt"))

\* checkInformationSufficiency returns the result of this stage
sufficiencyAccepted(result) ==
  Get(result, "status") = Str(s_enough) \/ Truthy(Get(result, "missing_info_prompt"))

\* the response of the legacy handler and of the two-phase handler for a task
taskResponse(v, jiraTask) ==
  IF v = "legacy"
    THEN Respond([title |-> Get(jiraTask, "title"), description |-> Get(jiraTask, "description")])
    ELSE Respond([status |-> Str(s_done), title |-> Get(jiraTask, "title"),
                  description |-> Get(jiraTask, "description")])

\* the not_enough branch of the two-phase handler
sufficiencyResponse(sufficiency, previousClarifications) ==
  IF Len(previousClarifications) >= MAX_CLARIFICATION_ROUNDS
    THEN Respond([status |-> Str(s_error), reason |-> Str(MAX_ROUNDS_REASON)])
    ELSE Respond([status |-> Str(s_needs_info),
                  reason |-> IF Truthy(Get(sufficiency, "reason"))
                               THEN Get(sufficiency, "reason")
                               ELSE Str(TWO_PHASE_DEFAULT_REASON),
                  missingInfoPrompt |->
                    IF Truthy(Get(sufficiency, "missing_info_prompt"))
                      THEN Get(sufficiency, "missing_info_prompt")
                      ELSE Str(TWO_PHASE_DEFAULT_QUESTION)])


\* ---------------------------------------------------------------- state
VARIABLES
  pc,             \* where the request being served stands
  variant,        \* the handler serving it: "legacy", "two-phase" or "loop"
  req,            \* the request body and the configured credential
  cachedApiKey,   \* the credential of the process-wide client (null: no client)
  text,           \* the request text as the handler uses it
  scope,          \* the scope list as the handler uses it
  clarifications, \* the normalized previousClarifications
  baseMessages,   \* the message list of the first call of the current phase
  sent,           \* the message list of every completion call issued, in order
  inflight,       \* completion calls issued and not yet returned
  calls,          \* completion calls issued for this request
  received,       \* what each returned call came back with, in order
  pending,        \* the needs_info response awaiting the clarification-only call
  response,       \* the outcome of the request
  san,            \* a text on its way through a sanitizer (SanitizerSpec)
  srv,            \* a server with requests in flight side by side (ServerSpec)
  fn,             \* a function of the program and its argument (FunctionSpec)
  dlg             \* the form and its dialogue with the server (DialogueSpec)

vars ==
  <<pc, variant, req, cachedApiKey, text, scope, clarifications, baseMessages,
    sent, inflight, calls, received, pending, response, san, srv, fn, dlg>>

\* the variables of the other specifications, which the handlers of
\* this one leave alone
others == <<san, srv, fn, dlg>>

NoRequest ==
  [text |-> Undef, scope |-> Undef, previousClarifications |-> Undef, apiKey |-> <<>>]

\* no request is being served
HandlerIdle ==
  /\ pc = "idle"
  /\ variant = "none"
  /\ req = NoRequest
  /\ cachedApiKey = Null
  /\ text = <<>>
  /\ scope = <<>>
  /\ clarifications = <<>>
  /\ baseMessages = <<>>
  /\ sent = <<>>
  /\ inflight = 0
  /\ calls = 0
  /\ received = <<>>
  /\ pending = NoResponse
  /\ response = NoResponse

Init ==
  /\ HandlerIdle
  /\ san = <<>>
  /\ srv = <<>>
  /\ fn = <<>>
  /\ dlg = <<>>

\* getOpenAIClient: the client is rebuilt when the credential changes
getOpenAIClient(apiKey) == Str(apiKey)

\* the request ends with outcome r
Finish(r) ==
  /\ pc' = "done"
  /\ response' = r

\* openai.chat.completions.create(messages) is issued; the handler awaits it
IssueCall(messages, next) ==
  /\ sent' = Append(sent, messages)
  /\ calls' = calls + 1
  /\ inflight' = inflight + 1
  /\ received' = received
  /\ pc' = next

\* the awaited call returns with out
CallReturns(out) ==
  /\ inflight' = inflight - 1
  /\ received' = Append(received, out)
  /\ UNCHANGED others

\* the awaited call returns with out and the next one is issued
ReturnAndIssue(out, messages, next) ==
  /\ received' = Append(received, out)
  /\ sent' = Append(sent, messages)
  /\ calls' = calls + 1
  /\ inflight' = (inflight - 1) + 1
  /\ pc' = next
  /\ UNCHANGED others

\* a request arrives: what every handler does first
Accept(v, r) ==
  /\ pc = "idle"
  /\ variant' = v
  /\ req' = r
  /\ pending' = NoResponse
  /\ UNCHANGED others

RejectRequest_createsClient(r) ==
  /\ Finish(r)
  /\ cachedApiKey' = Str(API_KEY)
  /\ UNCHANGED <<text, scope, clarifications, baseMessages, sent,
                 inflight, calls, received>>

RejectRequest(r) ==
  /\ Finish(r)
  /\ UNCHANGED <<cachedApiKey, text, scope, clarifications, baseMessages, sent,
                 inflight, calls, received>>

\* -------------------------------------------------------- legacy handler
LEGACY_SYSTEM_PROMPT == Fixed("legacy SYSTEM_PROMPT")

LegacyHandler ==
  \E r \in Requests :
    /\ r.previousClarifications = Undef
    /\ Accept("legacy", r)
    /\ LET trimmedText == IF isString(r.text) THEN trim(r.text.v) ELSE <<>>
           scopeValue == IF Nullish(r.scope) THEN Arr(<<Str(DEFAULT_SCOPE_KEY)>>) ELSE r.scope
           normalizedText == collapseWhiteSpace(trimmedText)
           messages == <<Message("system", LEGACY_SYSTEM_PROMPT),
                         Message("user", buildPrompt(normalizedText, Strings(scopeValue)))>>
       IN IF trimmedText = <<>>
            THEN RejectRequest(Reject(400, "No text provided"))
          ELSE IF ~isArray(scopeValue) \/ Len(scopeValue.v) = 0
            THEN RejectRequest(Reject(400, "At least one scope required"))
          ELSE IF trim(r.apiKey) = <<>>
            THEN RejectRequest(Reject(500, "Missing OpenAI API key"))
          ELSE /\ cachedApiKey' = getOpenAIClient(trim(r.apiKey))
               /\ text' = normalizedText
               /\ scope' = Strings(scopeValue)
               /\ clarifications' = <<>>
               /\ baseMessages' = messages
               /\ IssueCall(messages, "initial")
               /\ response' = NoResponse

retryMessagesFor_cleaned(messages, payload) ==
  buildRetryMessages(messages, payload.cleaned)

\* the messages of the retry call, for the payload that was rejected
retryMessagesFor(messages, payload) == buildRetryMessages(messages, payload.raw)

generateJiraTask_noEarlyReturn(v, stage, messages, out) ==
  LET payload == extractCompletionPayload(out.choice)
      jiraTask == JsonParse(payload.cleaned)
  IN IF out.kind # "choice" THEN Decision("respond", mapApiError(out))
     ELSE IF ~payload.ok
       THEN Decision("respond", Reject(502, payload.err.message))
     ELSE IF ~jiraTask.ok
       THEN Decision("respond", Reject(502, "Invalid JSON from model"))
     ELSE IF stage = "initial"
       THEN [kind |-> "retry", response |-> NoResponse,
             messages |-> retryMessagesFor(messages, payload)]
     ELSE IF isValidJiraTask(jiraTask.value)
       THEN Decision("respond", taskResponse(v, jiraTask.value))
     ELSE Decision("respond", Reject(502, "AI output missing required fields"))

\* generateJiraTask after a call returned: what the stage does with the output
generateJiraTask(v, stage, messages, out) ==
  LET payload == extractCompletionPayload(out.choice)
      jiraTask == JsonParse(payload.cleaned)
  IN IF out.kind # "choice" THEN Decision("respond", mapApiError(out))
     ELSE IF ~payload.ok
       THEN Decision("respond", Reject(502, payload.err.message))
     ELSE IF ~jiraTask.ok
       THEN Decision("respond", Reject(502, "Invalid JSON from model"))
     ELSE IF isValidJiraTask(jiraTask.value)
       THEN Decision("respond", taskResponse(v, jiraTask.value))
     ELSE IF stage = "initial"
       THEN [kind |-> "retry", response |-> NoResponse,
             messages |-> retryMessagesFor(messages, payload)]
     ELSE Decision("respond", Reject(502, "AI output missing required fields"))

\* the initial call of generateJiraTask returns
GenerateInitialReturns ==
  \E out \in GenerationOutputs :
    /\ pc = "initial"
    /\ LET d == generateJiraTask(variant, "initial", baseMessages, out)
       IN IF d.kind = "retry"
            THEN /\ ReturnAndIssue(out, d.messages, "retry")
                 /\ UNCHANGED response
            ELSE /\ CallReturns(out)
                 /\ Finish(d.response)
                 /\ UNCHANGED <<sent, calls>>
    /\ UNCHANGED <<variant, req, cachedApiKey, text, scope, clarifications,
                   baseMessages, pending>>

\* the retry call of generateJiraTask returns
GenerateRetryReturns ==
  \E out \in GenerationOutputs :
    /\ pc = "retry"
    /\ CallReturns(out)
    /\ Finish(generateJiraTask(variant, "retry", baseMessages, out).response)
    /\ UNCHANGED <<variant, req, cachedApiKey, text, scope, clarifications,
                   baseMessages, sent, calls, pending>>


\* --------------------------------------------- clarification-loop handler
SYSTEM_PROMPT == Fixed("SYSTEM_PROMPT")

CLARIFICATION_SYSTEM_PROMPT == Fixed("clarification-system")

\* the clarification-loop handler takes request r up to its first await
LoopRequest(r) ==
  /\ Accept("loop", r)
  /\ LET trimmed == IF isString(r.text) THEN trim(r.text.v) ELSE <<>>
         scopeList == normalizeScope(r.scope)
         prev == normalizeClarifications(r.previousClarifications)
         messages == <<Message("system", SYSTEM_PROMPT),
                       Message("user", buildIssueContext(trimmed, prev, scopeList))>>
     IN IF trim(r.apiKey) = <<>>
          THEN RejectRequest(Reject(500, "Missing OpenAI API key"))
        ELSE IF trimmed = <<>>
          THEN RejectRequest(Reject(400, "No text provided"))
        ELSE /\ cachedApiKey' = getOpenAIClient(trim(r.apiKey))
             /\ text' = trimmed
             /\ scope' = scopeList
             /\ clarifications' = prev
             /\ baseMessages' = messages
             /\ IssueCall(messages, "primary")
             /\ response' = NoResponse

LoopHandler == \E r \in Requests : LoopRequest(r)

loopPrimary_capFirst(out, prev) ==
  LET payload == extractPayload(out.choice)
      parsed == parseJson(payload.cleaned)
  IN IF out.kind # "choice" THEN Decision("respond", Throw(out.kind))
     ELSE IF ~payload.ok
       THEN Decision("respond", Reject(502, payload.err.message))
     ELSE IF ~Truthy(parsed)
       THEN Decision("respond", Reject(502, "Invalid JSON returned by model"))
     ELSE IF roundsExhausted(prev) \/ Get(parsed, "status") = Str(s_not_enough)
       THEN handleNeedsInfo(needsInfoArgument(parsed), prev)
     ELSE Decision("respond", handleJiraEnhanced(parsed))

\* the handler after the primary call returned
loopPrimary(out, prev) ==
  LET payload == extractPayload(out.choice)
      parsed == parseJson(payload.cleaned)
  IN IF out.kind # "choice" THEN Decision("respond", Throw(out.kind))
     ELSE IF ~payload.ok
       THEN Decision("respond", Reject(502, payload.err.message))
     ELSE IF ~Truthy(parsed)
       THEN Decision("respond", Reject(502, "Invalid JSON returned by model"))
     ELSE IF Get(parsed, "status") = Str(s_not_enough)
       THEN handleNeedsInfo(needsInfoArgument(parsed), prev)
     ELSE Decision("respond", handleJiraEnhanced(parsed))

buildFallbackMessages(t, prev) ==
  <<Message("system", CLARIFICATION_SYSTEM_PROMPT),
    Message("user", buildClarificationUserPrompt(t, prev))>>

LoopPrimaryReturns ==
  \E out \in PrimaryOutputs :
    /\ pc = "primary"
    /\ LET d == loopPrimary(out, clarifications)
       IN IF d.kind = "fallback"
            THEN /\ ReturnAndIssue(out, buildFallbackMessages(text, clarifications), "fallback")
                 /\ pending' = d.response
                 /\ UNCHANGED response
            ELSE /\ CallReturns(out)
                 /\ Finish(d.response)
                 /\ UNCHANGED <<sent, calls, pending>>
    /\ UNCHANGED <<variant, req, cachedApiKey, text, scope, clarifications, baseMessages>>

\* buildFallbackClarification after its call returned, and the response
\* handleNeedsInfo then makes of it
buildFallbackClarification(out, needsInfo) ==
  LET payload == extractPayload(out.choice)
  IN IF out.kind # "choice" THEN Throw(out.kind)
     ELSE IF ~payload.ok THEN Reject(502, payload.err.message)
     ELSE [needsInfo EXCEPT !.body["missingInfoPrompt"] =
             IF payload.cleaned # EmptyText THEN TextStr(payload.cleaned)
                                            ELSE Str(DEFAULT_QUESTION)]

LoopFallbackReturns ==
  \E out \in FallbackOutputs :
    /\ pc = "fallback"
    /\ CallReturns(out)
    /\ Finish(buildFallbackClarification(out, pending))
    /\ UNCHANGED <<variant, req, cachedApiKey, text, scope, clarifications,
                   baseMessages, sent, calls, pending>>

\* ------------------------------------------------------ two-phase handler
SUFFICIENCY_SYSTEM_PROMPT == Fixed("SUFFICIENCY_SYSTEM_PROMPT")

TWO_PHASE_SYSTEM_PROMPT == Fixed("two-phase SYSTEM_PROMPT")

TwoPhaseHandler ==
  \E r \in Requests :
    /\ Accept("two-phase", r)
    /\ LET trimmedText == IF isString(r.text) THEN trim(r.text.v) ELSE <<>>
           scopeList == normalizeScope(r.scope)
           prev == normalizeClarifications(r.previousClarifications)
           normalizedText == collapseWhiteSpace(trimmedText)
           messages == <<Message("system", SUFFICIENCY_SYSTEM_PROMPT),
                         Message("user", buildSufficiencyPrompt(normalizedText, prev, scopeList))>>
       IN IF trimmedText = <<>>
            THEN RejectRequest(Reject(400, "No text provided"))
          ELSE IF trim(r.apiKey) = <<>>
            THEN RejectRequest(Reject(500, "Missing OpenAI API key"))
          ELSE /\ cachedApiKey' = getOpenAIClient(trim(r.apiKey))
               /\ text' = normalizedText
               /\ scope' = scopeList
               /\ clarifications' = prev
               /\ baseMessages' = messages
               /\ IssueCall(messages, "sufficiency")
               /\ response' = NoResponse

\* checkInformationSufficiency after a call returned: an error, the retry,
\* or the result ("result")
checkInformationSufficiency(stage, messages, out) ==
  LET payload == extractCompletionPayload(out.choice)
      result == JsonParse(payload.cleaned)
  IN IF out.kind # "choice" THEN Decision("respond", Throw(out.kind))
     ELSE IF ~payload.ok
       THEN Decision("respond", Reject(502, payload.err.message))
     ELSE IF ~result.ok
       THEN Decision("respond", Reject(502, "Invalid JSON from model"))
     ELSE IF Nullish(result.value)
       THEN Decision("respond", Throw("TypeError"))
     ELSE IF ~ensureValidSufficiency(result.value)
       THEN Decision("respond", Reject(502, "AI sufficiency check missing required fields"))
     ELSE IF stage = "sufficiency" /\ ~sufficiencyAccepted(result.value)
       THEN [kind |-> "retry", response |-> NoResponse,
             messages |-> buildSufficiencyRetryMessages(messages, payload.raw)]
     ELSE [kind |-> "result", response |-> NoResponse, result |-> result.value]

\* the generation messages of the two-phase handler
twoPhaseBaseMessages(t, prev, scopes) ==
  <<Message("system", TWO_PHASE_SYSTEM_PROMPT),
    Message("user", buildPrompt(join(<<t>> \o prev, <<"\n", "\n">>), scopes))>>

\* a sufficiency call (initial or retry) returns
SufficiencyReturns ==
  \E out \in SufficiencyOutputs :
    /\ pc \in {"sufficiency", "sufficiency-retry"}
    /\ LET d == checkInformationSufficiency(pc, baseMessages, out)
       IN CASE d.kind = "respond" ->
                 /\ CallReturns(out)
                 /\ Finish(d.response)
                 /\ UNCHANGED <<sent, calls, baseMessages>>
            [] d.kind = "retry" ->
                 /\ ReturnAndIssue(out, d.messages, "sufficiency-retry")
                 /\ UNCHANGED <<response, baseMessages>>
            [] d.kind = "result" /\ Get(d.result, "status") = Str(s_not_enough) ->
                 /\ CallReturns(out)
                 /\ Finish(sufficiencyResponse(d.result, clarifications))
                 /\ UNCHANGED <<sent, calls, baseMessages>>
            [] OTHER ->
                 /\ baseMessages' = twoPhaseBaseMessages(text, clarifications, scope)
                 /\ ReturnAndIssue(out, baseMessages', "initial")
                 /\ UNCHANGED response
    /\ UNCHANGED <<variant, req, cachedApiKey, text, scope, clarifications, pending>>

\* the response has been delivered; the server is ready for the next request
Deliver ==
  /\ pc = "done"
  /\ pc' = "idle"
  /\ variant' = "none"
  /\ req' = NoRequest
  /\ text' = <<>>
  /\ scope' = <<>>
  /\ clarifications' = <<>>
  /\ baseMessages' = <<>>
  /\ sent' = <<>>
  /\ inflight' = 0
  /\ calls' = 0
  /\ received' = <<>>
  /\ pending' = NoResponse
  /\ response' = NoResponse
  /\ UNCHANGED <<cachedApiKey, san, srv, fn, dlg>>

Next ==
  \/ LegacyHandler
  \/ GenerateInitialReturns
  \/ GenerateRetryReturns
  \/ LoopHandler
  \/ LoopPrimaryReturns
  \/ LoopFallbackReturns
  \/ TwoPhaseHandler
  \/ SufficiencyReturns
  \/ Deliver

Spec == Init /\ [][Next]_vars

\* ------------------------------------------------- history of one request
\* the calls of the completion retry strategy (generateJiraTask) among the
\* calls of the request, by their position in sent
GENERATION_PROMPTS == {LEGACY_SYSTEM_PROMPT, TWO_PHASE_SYSTEM_PROMPT}

generationCallIndexes ==
  {i \in 1..Len(sent) : sent[i][1].content \in GENERATION_PROMPTS}

generationCalls == Cardinality(generationCallIndexes)

\* the position of the strategy's initial call (0: the strategy did not run)
firstGeneration ==
  IF generationCallIndexes = {} THEN 0
  ELSE CHOOSE i \in generationCallIndexes : \A j \in generationCallIndexes : i <= j

\* the k-th call of the strategy has returned
generationReturned(k) ==
  firstGeneration # 0 /\ Len(received) >= firstGeneration + k - 1

generationOutput(k) == received[firstGeneration + k - 1]

\* the output is text that is not valid JSON, also after sanitizing
OutputIsInvalidJson(out) ==
  /\ out.kind = "choice"
  /\ extractCompletionPayload(out.choice).ok
  /\ ~JsonParse(extractCompletionPayload(out.choice).cleaned).ok

\* the output extracts, parses and passes the ticket gate
OutputIsValidTask(out) ==
  /\ out.kind = "choice"
  /\ extractCompletionPayload(out.choice).ok
  /\ JsonParse(extractCompletionPayload(out.choice).cleaned).ok
  /\ isValidJiraTask(JsonParse(extractCompletionPayload(out.choice).cleaned).value)

\* the output has no payload: nothing at all (EmptyResponse) or a refusal
OutputFailsExtraction(out) ==
  /\ out.kind = "choice"
  /\ out.choice.hasMessage
  /\ ~extractCompletionPayload(out.choice).ok

Failure == response.kind \in {"http", "thrown"}

\* ---------------------------------------------------------------- claims

\* C1: when the completion function returns text that is not valid JSON on
\* the initial and on the retry call, the retry strategy makes exactly 2
\* completion calls and then fails (never a 3rd).
C1_TwoCallsOnInvalidJson ==
  (/\ pc = "done"
   /\ generationReturned(1)
   /\ \A k \in 1..2 : generationReturned(k) => OutputIsInvalidJson(generationOutput(k)))
  => (generationCalls = 2 /\ Failure)

\* C2: one run of the retry strategy issues at most 2 completion calls; when
\* the first output extracts, parses and validates the run returns the task
\* after exactly 1 call; after a second output that is not a valid task it
\* fails with both calls returned and none further issued.
C2_RetryBudget ==
  /\ generationCalls <= 2
  /\ (pc = "done" /\ generationReturned(1) /\ OutputIsValidTask(generationOutput(1)))
       => (/\ generationCalls = 1
           /\ response.kind = "body"
           /\ response.body["title"] # Undef)
  /\ (generationReturned(2) /\ ~OutputIsValidTask(generationOutput(2)))
       => (/\ pc = "done"
           /\ Failure
           /\ generationCalls = 2
           /\ inflight = 0)

C2_Witness ==
  /\ pc = "done"
  /\ generationReturned(2)
  /\ generationOutput(2).kind = "choice"
  /\ JsonParse(extractCompletionPayload(generationOutput(2).choice).cleaned).ok
  /\ ~OutputIsValidTask(generationOutput(2))
  /\ response = Reject(502, "AI output missing required fields")

\* the document the clarification-loop handler parsed from its primary
\* output (undefined: the handler is another one, or nothing was parsed)
primaryDocument ==
  IF /\ variant = "loop"
     /\ Len(received) >= 1
     /\ received[1].kind = "choice"
     /\ extractPayload(received[1].choice).ok
    THEN parseJson(extractPayload(received[1].choice).cleaned)
    ELSE Undef

VerdictNotEnough == Get(primaryDocument, "status") = Str(s_not_enough)

\* the entries of the request's previousClarifications, as supplied
suppliedClarifications ==
  IF isArray(req.previousClarifications) THEN Len(req.previousClarifications.v) ELSE 0

\* those of them that are not blank
nonBlankClarifications ==
  IF isArray(req.previousClarifications)
    THEN Cardinality({i \in 1..Len(req.previousClarifications.v) :
                        trim(req.previousClarifications.v[i].v) # <<>>})
    ELSE 0

RoundCapResponse ==
  /\ response.kind = "body"
  /\ response.body["status"] = Str(s_error)
  /\ response.body["reason"] = Str(MAX_ROUNDS_REASON)
  /\ response.body["missingInfoPrompt"] = Undef

\* C3 (as claimed): a request that carries 3 or more prior clarifications and
\* draws a not_enough verdict is answered with status error, and no
\* completion call follows the verdict.
C3_CapOnSuppliedClarifications ==
  (pc = "done" /\ VerdictNotEnough /\ suppliedClarifications >= 3)
  => (RoundCapResponse /\ calls = 1)

\* C3 (amended): a request that carries 3 or more non-blank prior
\* clarifications and draws a not_enough verdict is answered with status
\* error, with or without a question in the verdict, and the primary call
\* stays the only completion call of the request.
C3_RoundCap ==
  (VerdictNotEnough /\ nonBlankClarifications >= 3)
  => (/\ pc = "done"
      /\ RoundCapResponse
      /\ calls = 1
      /\ Len(sent) = 1
      /\ inflight = 0)

C3_Witness ==
  /\ pc = "done"
  /\ VerdictNotEnough
  /\ nonBlankClarifications >= 3
  /\ ~Truthy(Get(primaryDocument, "clarificationRequest"))
  /\ ~Truthy(Get(primaryDocument, "missing_info_prompt"))
  /\ RoundCapResponse

\* C4: one request issues at most 3 completion calls, and a call is issued
\* only when every earlier call of the request has returned.
C4_CallBudget ==
  /\ calls <= 3
  /\ calls = Len(sent)
  /\ inflight = calls - Len(received)
  /\ inflight \in {0, 1}
  /\ pc \in {"idle", "done"} => inflight = 0

C4_Witness ==
  /\ variant = "two-phase"
  /\ calls = 3
  /\ inflight = 1
  /\ pc = "retry"

\* the question of a not_enough document: clarificationRequest, or
\* missing_info_prompt when clarificationRequest is absent, null or blank
isBlankOrAbsent(x) == Nullish(x) \/ (isString(x) /\ trim(x.v) = <<>>)

verdictQuestion(doc) ==
  IF isBlankOrAbsent(Get(doc, "clarificationRequest"))
    THEN Get(doc, "missing_info_prompt")
    ELSE Get(doc, "clarificationRequest")

NeedsInfoResponse(reason, question) ==
  /\ response.kind = "body"
  /\ response.body =
       [status |-> Str(s_needs_info), reason |-> reason, missingInfoPrompt |-> question]
       @@ EmptyResp

\* C5 (as claimed): with fewer than 3 prior clarifications, a not_enough
\* verdict with a non-empty reason and a non-empty clarification question is
\* answered with needs_info carrying that reason and that question verbatim,
\* and no further completion call is made.
C5_QuestionVerbatim ==
  (/\ pc = "done"
   /\ VerdictNotEnough
   /\ suppliedClarifications < 3
   /\ isString(Get(primaryDocument, "reason")) /\ Get(primaryDocument, "reason").v # <<>>
   /\ isString(Get(primaryDocument, "clarificationRequest"))
   /\ Get(primaryDocument, "clarificationRequest").v # <<>>)
  => (/\ NeedsInfoResponse(Get(primaryDocument, "reason"),
                           Get(primaryDocument, "clarificationRequest"))
      /\ calls = 1)

\* C5 (amended): with fewer than 3 prior clarifications, a not_enough verdict
\* with a non-empty reason and a question that is a non-blank string is
\* answered with needs_info carrying the reason verbatim and the question
\* with its leading and trailing white space removed, and no further
\* completion call is made.
C5_QuestionTrimmed ==
  (/\ VerdictNotEnough
   /\ suppliedClarifications < 3
   /\ isString(Get(primaryDocument, "reason")) /\ Get(primaryDocument, "reason").v # <<>>
   /\ isString(verdictQuestion(primaryDocument))
   /\ trim(verdictQuestion(primaryDocument).v) # <<>>)
  => (/\ pc = "done"
      /\ NeedsInfoResponse(Get(primaryDocument, "reason"),
                           Str(trim(verdictQuestion(primaryDocument).v)))
      /\ calls = 1
      /\ inflight = 0)

C5_Witness ==
  /\ pc = "done"
  /\ VerdictNotEnough
  /\ suppliedClarifications < 3
  /\ Get(primaryDocument, "reason") = Str(REASON)
  /\ Get(primaryDocument, "clarificationRequest") = Str(QUESTION_PADDED)
  /\ NeedsInfoResponse(Str(REASON), Str(QUESTION))
  /\ calls = 1

\* x is one of the ten keys of the issue-type registry
isIssueTypeKey(x) ==
  isString(x) /\ \E i \in 1..Len(ISSUE_TYPE_KEYS) : ISSUE_TYPE_KEYS[i] = x.v

isNonBlankString(x) == isString(x) /\ trim(x.v) # <<>>

\* an enough document with its required strings, whatever its issueType
EnoughWithRequiredStrings(doc) ==
  /\ Get(doc, "status") = Str(s_enough)
  /\ isNonBlankString(Get(doc, "title"))
  /\ isNonBlankString(Get(doc, "scope"))
  /\ isNonBlankString(Get(doc, "description"))

\* C6: a valid enough payload (non-blank title, scope and description, an
\* issueType that is one of the ten keys) is answered with status done, the
\* payload's title, description and issueType, and every enrichment field
\* at the validated value of the payload.
C6_EnoughIsDone ==
  (EnoughWithRequiredStrings(primaryDocument) /\ isIssueTypeKey(Get(primaryDocument, "issueType")))
  => (/\ pc = "done"
      /\ response.kind = "body"
      /\ response.body["status"] = Str(s_done)
      /\ response.body["title"] = Get(primaryDocument, "title")
      /\ response.body["description"] = Get(primaryDocument, "description")
      /\ response.body["issueType"] = Get(primaryDocument, "issueType")
      /\ \A f \in ENRICHED_FIELDS : response.body[f] = enoughResult(primaryDocument)[f]
      /\ response.body["reason"] = Undef
      /\ response.body["missingInfoPrompt"] = Undef)

C6_Witness ==
  /\ pc = "done"
  /\ primaryDocument = ENOUGH_VALID
  /\ response.body["status"] = Str(s_done)
  /\ response.body["priority"] = Str(s_high)
  /\ response.body["labels"] = Arr(<<Str(s_frontend)>>)
  /\ response.body["multiItem"] = Bool(TRUE)

\* a parsed payload whose status is absent or neither enough nor not_enough
StatuslessPayload ==
  /\ Truthy(primaryDocument)
  /\ Get(primaryDocument, "status") \notin {Str(s_enough), Str(s_not_enough)}

\* C7 (as claimed): a payload whose status is absent or another value never
\* produces a done or needs_info response.
C7_StatusRequired ==
  (pc = "done" /\ StatuslessPayload)
  => ~(/\ response.kind = "body"
       /\ response.body["status"] \in {Str(s_done), Str(s_needs_info)})

\* the legacy shape: an issueType (or type) that normalizes to a key, and a
\* title and a description that are not empty
legacyIssueType(doc) ==
  normalizeIssueType(IF Nullish(Get(doc, "issueType")) THEN Get(doc, "type")
                                                        ELSE Get(doc, "issueType"))

LegacyShape(doc) ==
  /\ legacyIssueType(doc) # Null
  /\ Truthy(Get(doc, "title"))
  /\ Truthy(Get(doc, "description"))

\* C7 (amended): a payload whose status is absent or another value fails the
\* schema validator and never produces a needs_info response; it produces a
\* done response only through the legacy fallback, when its issueType (or
\* type) normalizes to a fixed key and its title and description are not
\* empty, and that response carries the title, the description and the
\* normalized key and nothing else; every other such payload is a 502 error.
C7_StatuslessIsLegacy ==
  StatuslessPayload
  => (/\ pc = "done"
      /\ calls = 1
      /\ ~parseIssueGenerationResult(primaryDocument).ok
      /\ IF LegacyShape(primaryDocument)
           THEN /\ response.kind = "body"
                /\ response.body =
                     [status |-> Str(s_done),
                      title |-> Get(primaryDocument, "title"),
                      description |-> Get(primaryDocument, "description"),
                      issueType |-> legacyIssueType(primaryDocument)] @@ EmptyResp
           ELSE response = Reject(502, "Unexpected AI response - missing required fields"))

C7_Witness ==
  /\ pc = "done"
  /\ StatuslessPayload
  /\ Get(primaryDocument, "status") = Undef
  /\ Get(primaryDocument, "priority") = Str(s_high)
  /\ Get(primaryDocument, "issueType") = Str(s_defect)
  /\ response.kind = "body"
  /\ response.body["status"] = Str(s_done)
  /\ response.body["issueType"] = Str(s_bug)
  /\ response.body["priority"] = Undef

\* C8: an enough verdict whose issueType is a case variant or an alias of a
\* fixed key is answered with status done, the normalized key and every
\* enrichment field the payload carries.
C8_AliasKeepsEnrichment ==
  (/\ pc = "done"
   /\ EnoughWithRequiredStrings(primaryDocument)
   /\ ~isIssueTypeKey(Get(primaryDocument, "issueType"))
   /\ normalizeIssueType(Get(primaryDocument, "issueType")) # Null)
  => (/\ response.kind = "body"
      /\ response.body["status"] = Str(s_done)
      /\ response.body["issueType"] = normalizeIssueType(Get(primaryDocument, "issueType"))
      /\ \A f \in ENRICHED_FIELDS :
           Get(primaryDocument, f) # Undef => response.body[f] = enoughResult(primaryDocument)[f])

\* C9: an initial attempt that fails extraction (no payload, or a refusal)
\* uses up one attempt and the corrective retry is still issued.
C9_RetryAfterExtractionFailure ==
  (/\ pc = "done"
   /\ generationReturned(1)
   /\ OutputFailsExtraction(generationOutput(1)))
  => generationCalls = 2

\* the raw text of an output that has a payload: the content when it is not
\* blank, else the arguments of the first usable tool call
rawOutput(choice) ==
  IF isTextString(choice.content) /\ nonBlank(choice.content.v)
    THEN choice.content.v
    ELSE choice.tool_calls[firstToolCall(choice.tool_calls)].arguments.v

\* C10: the retry call's messages are the initial messages, unchanged and in
\* order, then one assistant message holding the rejected raw output, then
\* the fixed corrective user message; the initial list is left as it was.
C10_RetryMessages ==
  generationCalls = 2
  => LET i == firstGeneration
     IN /\ sent[i + 1] =
             sent[i] \o <<Message("assistant", TextStr(rawOutput(received[i].choice))),
                          Message("user", RETRY_INSTRUCTION)>>
        /\ Len(sent[i]) = 2
        /\ baseMessages = sent[i]

C10_Witness ==
  /\ generationCalls = 2
  /\ rawOutput(received[firstGeneration].choice).fence
  /\ sent[firstGeneration + 1][3].content
       # TextStr(sanitizeCompletionJson(rawOutput(received[firstGeneration].choice)))

\* the verdict has no question: clarificationRequest and missing_info_prompt
\* are both absent, null or blank
VerdictWithoutQuestion ==
  /\ VerdictNotEnough
  /\ isBlankOrAbsent(Get(primaryDocument, "clarificationRequest"))
  /\ isBlankOrAbsent(Get(primaryDocument, "missing_info_prompt"))

\* C11: a not_enough verdict without a question, with rounds remaining, makes
\* exactly one further call with the clarification-only system prompt and is
\* answered with needs_info, the question being that call's text or the
\* default question when the call yields nothing or fails; never an error.
C11_FallbackNeverFails ==
  (pc = "done" /\ VerdictWithoutQuestion /\ nonBlankClarifications < 3)
  => (/\ calls = 2
      /\ sent[2][1].content = CLARIFICATION_SYSTEM_PROMPT
      /\ response.kind = "body"
      /\ response.body["status"] = Str(s_needs_info)
      /\ \/ response.body["missingInfoPrompt"] = Str(DEFAULT_QUESTION)
         \/ /\ received[2].kind = "choice"
            /\ extractPayload(received[2].choice).ok
            /\ response.body["missingInfoPrompt"]
                 = TextStr(extractPayload(received[2].choice).cleaned))

\* defects of a request body r
TextMissing(r) == ~isString(r.text) \/ trim(r.text.v) = <<>>

CredentialMissing(r) == trim(r.apiKey) = <<>>

\* the legacy handler's scope test fails (an absent scope defaults to ['ui'])
LegacyScopeRejected(r) == ~Nullish(r.scope) /\ (~isArray(r.scope) \/ Len(r.scope.v) = 0)

\* the input errors that apply to r under handler v
inputErrors(v, r) ==
  {Reject(400, "No text provided") : x \in {y \in {1} : TextMissing(r)}}
  \cup {Reject(500, "Missing OpenAI API key") : x \in {y \in {1} : CredentialMissing(r)}}
  \cup {Reject(400, "At least one scope required") :
          x \in {y \in {1} : v = "legacy" /\ LegacyScopeRejected(r)}}

ScopeMissing(r) == ~isArray(r.scope) \/ Len(r.scope.v) = 0

\* C13 (as claimed): a request whose scope is missing, not an array or empty
\* is rejected as an input error and no completion call is made for it.
C13_ScopeRequired ==
  (pc # "idle" /\ ScopeMissing(req))
  => (pc = "done" /\ response.kind = "http" /\ response.err.statusCode = 400 /\ calls = 0)

\* C13 (amended): the clarification-loop and two-phase handlers serve such a
\* request with the scope ['ui']; the legacy handler does so when the scope
\* is absent, and rejects a scope that is present but not an array or empty
\* with 400 'At least one scope required' before any completion call.
C13_ScopeDefaulted ==
  (pc # "idle" /\ ScopeMissing(req) /\ ~TextMissing(req) /\ ~CredentialMissing(req))
  => IF variant = "legacy" /\ LegacyScopeRejected(req)
       THEN /\ pc = "done"
            /\ response = Reject(400, "At least one scope required")
            /\ calls = 0
            /\ sent = <<>>
       ELSE /\ scope = <<DEFAULT_SCOPE_KEY>>
            /\ calls >= 1
            /\ sent[1][2].content.v.prefix =
                 IF variant = "two-phase" THEN DEFAULT_SCOPE_KEY
                                          ELSE toUpperCase(DEFAULT_SCOPE_KEY)
            /\ response # Reject(400, "At least one scope required")

C13_Witness ==
  /\ variant = "loop"
  /\ req.scope = Arr(<<>>)
  /\ pc = "primary"
  /\ scope = <<DEFAULT_SCOPE_KEY>>
  /\ calls = 1

\* the verdict the two-phase handler got from its sufficiency call
\* (undefined: another handler, or no verdict was accepted)
sufficiencyVerdict ==
  IF /\ variant = "two-phase"
     /\ Len(received) >= 1
     /\ received[1].kind = "choice"
     /\ extractCompletionPayload(received[1].choice).ok
     /\ JsonParse(extractCompletionPayload(received[1].choice).cleaned).ok
     /\ ensureValidSufficiency(JsonParse(extractCompletionPayload(received[1].choice).cleaned).value)
    THEN JsonParse(extractCompletionPayload(received[1].choice).cleaned).value
    ELSE Undef

\* C14 (as claimed): the round count compared against 3 is the length of the
\* previousClarifications list the client supplied.
C14_RoundCountIsSuppliedLength ==
  (calls >= 1 /\ variant \in {"loop", "two-phase"})
  => Len(clarifications) = suppliedClarifications

\* C14 (amended): the round count is the number of supplied entries that are
\* not blank, the counted entries being the trimmed ones in order; a
\* not_enough verdict ends in the terminal error exactly when that count is 3
\* or more.
C14_RoundCountIsNonBlank ==
  (calls >= 1 /\ variant \in {"loop", "two-phase"})
  => (/\ Len(clarifications) = nonBlankClarifications
      /\ Len(clarifications) <= suppliedClarifications
      /\ \A i \in 1..Len(clarifications) :
           clarifications[i] # <<>> /\ trim(clarifications[i]) = clarifications[i]
      /\ (pc = "done" /\ (VerdictNotEnough \/ Get(sufficiencyVerdict, "status") = Str(s_not_enough))
            /\ response.kind = "body")
           => (response.body["status"] = Str(s_error) <=> nonBlankClarifications >= 3))

C14_Witness ==
  /\ variant = "two-phase"
  /\ pc = "done"
  /\ suppliedClarifications = 3
  /\ nonBlankClarifications = 2
  /\ Get(sufficiencyVerdict, "status") = Str(s_not_enough)
  /\ response.kind = "body"
  /\ response.body["status"] = Str(s_needs_info)

\* the extractor of the handler serving the request
extractorResult(choice) ==
  IF variant = "loop" THEN extractPayload(choice) ELSE extractCompletionPayload(choice)

sanitizerResult(x) ==
  IF variant = "loop" THEN sanitizeJsonResponse(x) ELSE sanitizeCompletionJson(x)

contentIsNonBlank(choice) == isTextString(choice.content) /\ nonBlank(choice.content.v)

\* the positions of the tool calls that are function-type with non-blank
\* string arguments
usableToolCalls(choice) ==
  {i \in 1..Len(choice.tool_calls) :
     /\ choice.tool_calls[i].type = "function"
     /\ isTextString(choice.tool_calls[i].arguments)
     /\ nonBlank(choice.tool_calls[i].arguments.v)}

refusalIsNonBlank(choice) == isTextString(choice.refusal) /\ nonBlank(choice.refusal.v)

REFUSED_MESSAGES == {"OpenAI refused", "OpenAI refused request"}

EMPTY_RESPONSE_MESSAGE == "Empty response from OpenAI"

\* what the priority order prescribes for one message
extractionInOrder(choice) ==
  LET p == extractorResult(choice)
  IN IF contentIsNonBlank(choice)
       THEN p.ok /\ p.raw = choice.content.v /\ p.cleaned = sanitizerResult(choice.content.v)
     ELSE IF usableToolCalls(choice) # {}
       THEN /\ p.ok
            /\ \E i \in usableToolCalls(choice) :
                 /\ \A j \in usableToolCalls(choice) : i <= j
                 /\ p.raw = choice.tool_calls[i].arguments.v
                 /\ p.cleaned = sanitizerResult(choice.tool_calls[i].arguments.v)
     ELSE IF refusalIsNonBlank(choice)
       THEN ~p.ok /\ p.err.statusCode = 502 /\ p.err.message \in REFUSED_MESSAGES
     ELSE ~p.ok /\ p.err.statusCode = 502 /\ p.err.message = EMPTY_RESPONSE_MESSAGE

\* C15: for every message a completion call returned, the extractor follows
\* the priority order: non-blank content (whatever else is present), else the
\* first function tool call with non-blank string arguments, else the Refused
\* failure for a non-blank refusal, else EmptyResponse; and a request whose
\* last output fails extraction ends with that failure.
C15_ExtractionOrder ==
  \A k \in 1..Len(received) :
    (received[k].kind = "choice" /\ received[k].choice.hasMessage)
    => (/\ extractionInOrder(received[k].choice)
        /\ (pc = "done" /\ k = Len(received) /\ ~contentIsNonBlank(received[k].choice)
              /\ usableToolCalls(received[k].choice) = {})
             => (/\ response.kind = "http"
                 /\ response.err.statusCode = 502
                 /\ IF refusalIsNonBlank(received[k].choice)
                      THEN response.err.message \in REFUSED_MESSAGES
                      ELSE response.err.message = EMPTY_RESPONSE_MESSAGE))

C15_Witness ==
  /\ pc = "done"
  /\ Len(received) = 1
  /\ received[1].kind = "choice"
  /\ received[1].choice.content = Null
  /\ Cardinality(usableToolCalls(received[1].choice)) = 2
  /\ 1 \notin usableToolCalls(received[1].choice)
  /\ extractorResult(received[1].choice).raw = received[1].choice.tool_calls[3].arguments.v
  /\ response.kind = "body"

\* the document the clarification-loop handler validates has status enough
EnoughPayload == Get(primaryDocument, "status") = Str(s_enough)

\* its four required fields are strings that are not blank
RequiredStringsPresent(doc) ==
  \A f \in {"title", "issueType", "scope", "description"} : isNonBlankString(Get(doc, f))

\* C16: the validator fails for every enough payload in which title,
\* issueType, scope or description is missing, not a string or blank, and for
\* every enough payload whose issueType is not one of the ten keys; it
\* succeeds with status enough otherwise (and only then does the response
\* carry the validated scope).
C16_EnoughValidation ==
  EnoughPayload
  => LET r == parseIssueGenerationResult(primaryDocument)
     IN /\ r.ok <=> (/\ RequiredStringsPresent(primaryDocument)
                     /\ isIssueTypeKey(Get(primaryDocument, "issueType")))
        /\ r.ok => Get(r.value, "status") = Str(s_enough)
        /\ ~r.ok => r.error # ""
        /\ pc = "done"
        /\ IF r.ok
             THEN response.kind = "body" /\ response.body["scope"] = Get(primaryDocument, "scope")
             ELSE response.body["scope"] = Undef

C16_Witness ==
  /\ pc = "done"
  /\ EnoughPayload
  /\ Get(primaryDocument, "issueType") = Str(s_unknown_type)
  /\ isNonBlankString(Get(primaryDocument, "title"))
  /\ isNonBlankString(Get(primaryDocument, "scope"))
  /\ isNonBlankString(Get(primaryDocument, "description"))
  /\ ~parseIssueGenerationResult(primaryDocument).ok
  /\ response = Reject(502, "Unexpected AI response - missing required fields")

isNonEmptyString(x) == isString(x) /\ x.v # <<>>

\* C17: on the not_enough path a payload is accepted only when its reason is
\* a non-empty string and its question (clarificationRequest for the schema
\* validator, missing_info_prompt for the sufficiency check of the two-phase
\* handler) is a non-empty string.
C17_NotEnoughValidation ==
  /\ (VerdictNotEnough /\ parseIssueGenerationResult(primaryDocument).ok)
       => (/\ isNonEmptyString(Get(primaryDocument, "reason"))
           /\ isNonEmptyString(Get(primaryDocument, "clarificationRequest")))
  /\ Get(sufficiencyVerdict, "status") = Str(s_not_enough)
       => (/\ isNonEmptyString(Get(sufficiencyVerdict, "reason"))
           /\ isNonEmptyString(Get(sufficiencyVerdict, "missing_info_prompt")))

\* the validated value the clarification-loop handler answers with
validatedEnough == parseIssueGenerationResult(primaryDocument).value

\* the payload's value when it is one of the strings of an enumeration,
\* the default otherwise
enumerationOr(x, enumeration, default) ==
  IF x.t = "string" /\ x.v \in enumeration THEN x ELSE default

\* the payload's value when it is an array of strings, [] otherwise
stringsOrEmpty(x) ==
  IF x.t = "array" /\ (\A i \in 1..Len(x.v) : x.v[i].t = "string") THEN x ELSE Arr(<<>>)

\* C18: for every enough payload that validates, each optional field of the
\* result (and of the done response made of it) is the payload's value when
\* that value lies in the field's domain and the documented default
\* otherwise: priority and severity null, the five lists [], dataSensitivity
\* unknown, multiItem false.
C18_EnoughDefaults ==
  (EnoughPayload /\ parseIssueGenerationResult(primaryDocument).ok)
  => LET raw == primaryDocument
         expected ==
           [priority |-> enumerationOr(Get(raw, "priority"),
                                       {s_highest, s_high, s_medium, s_low}, Null),
            severity |-> enumerationOr(Get(raw, "severity"),
                                       {s_critical, s_major, s_minor, s_trivial}, Null),
            dataSensitivity |->
              enumerationOr(Get(raw, "dataSensitivity"),
                            {s_none, s_contains_pii, s_contains_financial, s_unknown},
                            Str(s_unknown)),
            labels |-> stringsOrEmpty(Get(raw, "labels")),
            components |-> stringsOrEmpty(Get(raw, "components")),
            dependencies |-> stringsOrEmpty(Get(raw, "dependencies")),
            riskAreas |-> stringsOrEmpty(Get(raw, "riskAreas")),
            acceptanceCriteria |-> stringsOrEmpty(Get(raw, "acceptanceCriteria")),
            multiItem |-> IF Get(raw, "multiItem").t = "boolean"
                            THEN Get(raw, "multiItem") ELSE Bool(FALSE)]
     IN /\ pc = "done"
        /\ response.kind = "body"
        /\ \A f \in DOMAIN expected :
             /\ Get(validatedEnough, f) = expected[f]
             /\ response.body[f] = expected[f]

\* a payload whose optional fields lie outside their domains validated
C18_Witness ==
  /\ pc = "done"
  /\ EnoughPayload
  /\ parseIssueGenerationResult(primaryDocument).ok
  /\ Get(primaryDocument, "priority") = Str(s_major)
  /\ Get(primaryDocument, "labels") = Arr(<<Str(s_frontend), Num>>)
  /\ response.kind = "body"
  /\ response.body["priority"] = Null
  /\ response.body["labels"] = Arr(<<>>)
  /\ response.body["dataSensitivity"] = Str(s_unknown)
  /\ response.body["multiItem"] = Bool(FALSE)

\* C19: in a validated enough result (and the done response made of it) each
\* of epicLink, parent and estimate is the payload's value when that value is
\* a non-empty string and null otherwise; an empty string becomes null.
C19_EmptyStringBecomesNull ==
  (EnoughPayload /\ parseIssueGenerationResult(primaryDocument).ok)
  => \A f \in {"epicLink", "parent", "estimate"} :
       LET expected == IF isNonEmptyString(Get(primaryDocument, f))
                         THEN Get(primaryDocument, f) ELSE Null
       IN /\ Get(validatedEnough, f) = expected
          /\ response.body[f] = expected

\* the result of the validator for the document the handler parsed
verdict == parseIssueGenerationResult(primaryDocument)

TICKET_FIELDS ==
  {"title", "issueType", "scope", "description", "priority", "severity", "labels",
   "components", "epicLink", "parent", "dependencies", "estimate", "riskAreas",
   "dataSensitivity", "acceptanceCriteria", "multiItem"}

carriesEnoughShape(v) ==
  /\ Get(v, "status") = Str(s_enough)
  /\ \A f \in TICKET_FIELDS : Get(v, f) # Undef
  /\ Get(v, "reason") = Undef
  /\ Get(v, "clarificationRequest") = Undef

\* C20 as stated: every verdict of the validator is either an enough verdict
\* with the ticket fields and neither reason nor clarificationRequest, or a
\* not_enough verdict with reason and clarificationRequest and none of the
\* ticket fields.
C20_ExactlyOneShape ==
  verdict.ok
  => \/ carriesEnoughShape(verdict.value)
     \/ /\ Get(verdict.value, "status") = Str(s_not_enough)
        /\ isString(Get(verdict.value, "reason"))
        /\ isString(Get(verdict.value, "clarificationRequest"))
        /\ \A f \in TICKET_FIELDS : Get(verdict.value, f) = Undef

\* C20 as the code has it: the status of a verdict is exactly one of enough
\* and not_enough; an enough verdict carries every ticket field and neither
\* reason nor clarificationRequest; a not_enough verdict carries reason and
\* clarificationRequest as strings and, besides, each of title, scope and
\* description that the payload gave as a string (undefined otherwise). The
\* needs_info response made from it carries no ticket field.
C20_OneStatusOptionalDraft ==
  verdict.ok
  => \/ carriesEnoughShape(verdict.value)
     \/ /\ Get(verdict.value, "status") = Str(s_not_enough)
        /\ ~carriesEnoughShape(verdict.value)
        /\ isString(Get(verdict.value, "reason"))
        /\ isString(Get(verdict.value, "clarificationRequest"))
        /\ \A f \in {"title", "scope", "description"} :
             Get(verdict.value, f) =
               IF Get(primaryDocument, f).t = "string" THEN Get(primaryDocument, f)
                                                     ELSE Undef
        /\ (response.kind = "body" /\ response.body["status"] = Str(s_needs_info))
             => \A f \in TICKET_FIELDS : response.body[f] = Undef

\* a not_enough payload with a title was validated and answered
C20_Witness ==
  /\ pc = "done"
  /\ verdict.ok
  /\ Get(verdict.value, "status") = Str(s_not_enough)
  /\ Get(primaryDocument, "title") = Str(TITLE_OK)
  /\ Get(verdict.value, "title") = Str(TITLE_OK)
  /\ response.kind = "body"
  /\ response.body["status"] = Str(s_needs_info)

\* ------------------------------------------- the sanitizers, by character
\* A text is a sequence of characters. SOH stands for the character U+0001,
\* a control character that is no white space, BACKTICK for U+0060.
SOH == "<U+0001>"

BACKTICK == "<U+0060>"

QUOTE == "\""

BACKSLASH == "\\"

FENCE == <<BACKTICK, BACKTICK, BACKTICK>>

\* the characters below the space character
ControlChars == {"\n", "\r", "\t", SOH}

Digits == {"0", "1", "2", "3", "4", "5", "6", "7", "8", "9"}

\* \w of a regular expression
WordChars == UpperCase \cup LowerCase \cup Digits \cup {"_"}

startsWith(s, prefix) ==
  Len(s) >= Len(prefix) /\ SubSeq(s, 1, Len(prefix)) = prefix

drop(s, n) == SubSeq(s, n + 1, Len(s))

\* the longest prefix of s made of characters of set
RECURSIVE skipWhile(_, _)
skipWhile(s, set) ==
  IF s # <<>> /\ Head(s) \in set THEN skipWhile(Tail(s), set) ELSE s

RECURSIVE stripJsonFencesSeq_first(_)
stripJsonFencesSeq_first(raw) ==
  IF raw = <<>> THEN <<>>
  ELSE IF startsWith(raw, FENCE) THEN drop(raw, 3)
  ELSE <<Head(raw)>> \o stripJsonFencesSeq_first(Tail(raw))

\* raw.replace(/```(json)?\n?/gi, ''), on characters
RECURSIVE stripJsonFencesSeq(_)
stripJsonFencesSeq(raw) ==
  IF raw = <<>> THEN <<>>
  ELSE IF startsWith(raw, FENCE)
    THEN LET afterTicks == drop(raw, 3)
             afterTag == IF Len(afterTicks) >= 4
                            /\ toLowerCase(SubSeq(afterTicks, 1, 4)) = <<"j", "s", "o", "n">>
                           THEN drop(afterTicks, 4) ELSE afterTicks
             afterNewline == IF startsWith(afterTag, <<"\n">>) THEN Tail(afterTag)
                                                              ELSE afterTag
         IN stripJsonFencesSeq(afterNewline)
  ELSE <<Head(raw)>> \o stripJsonFencesSeq(Tail(raw))

escapeOf_asIs(char) == <<char>>

\* the escape sequence of a control character
escapeOf(char) ==
  CASE char = "\n" -> <<BACKSLASH, "n">>
    [] char = "\r" -> <<BACKSLASH, "r">>
    [] char = "\t" -> <<BACKSLASH, "t">>
    [] char = SOH -> <<BACKSLASH, "u", "0", "0", "0", "1">>
    [] OTHER -> <<char>>

\* the loop of escapeControlCharactersInJsonStrings from a position on
RECURSIVE escapeLoop(_, _, _)
escapeLoop(s, inString, escapeNext) ==
  IF s = <<>> THEN <<>>
  ELSE LET char == Head(s)
           rest == Tail(s)
       IN IF ~inString THEN <<char>> \o escapeLoop(rest, char = QUOTE, escapeNext)
          ELSE IF escapeNext THEN <<char>> \o escapeLoop(rest, TRUE, FALSE)
          ELSE IF char = BACKSLASH THEN <<char>> \o escapeLoop(rest, TRUE, TRUE)
          ELSE IF char = QUOTE THEN <<char>> \o escapeLoop(rest, FALSE, FALSE)
          ELSE IF char \in ControlChars THEN escapeOf(char) \o escapeLoop(rest, TRUE, FALSE)
          ELSE <<char>> \o escapeLoop(rest, TRUE, FALSE)

escapeControlCharactersInJsonStringsSeq(jsonCandidate) ==
  escapeLoop(jsonCandidate, FALSE, FALSE)

\* sanitizeCompletionJson, on characters
sanitizeCompletionJsonSeq(raw) ==
  escapeControlCharactersInJsonStringsSeq(trim(stripJsonFencesSeq(raw)))

\* jsonString.replace(/```\w*\s*/g, ''), on characters
RECURSIVE removeTaggedFences(_)
removeTaggedFences(s) ==
  IF s = <<>> THEN <<>>
  ELSE IF startsWith(s, FENCE)
    THEN removeTaggedFences(skipWhile(skipWhile(drop(s, 3), WordChars), WhiteSpace))
  ELSE <<Head(s)>> \o removeTaggedFences(Tail(s))

\* .replace(/```/g, ''), on characters
RECURSIVE removeBareFences(_)
removeBareFences(s) ==
  IF s = <<>> THEN <<>>
  ELSE IF startsWith(s, FENCE) THEN removeBareFences(drop(s, 3))
  ELSE <<Head(s)>> \o removeBareFences(Tail(s))

removeJsonCodeFencesSeq(jsonString) ==
  trim(removeBareFences(removeTaggedFences(jsonString)))

shouldEscapeCharacter(char) ==
  char = "\n" \/ char = "\r" \/ char = "\t" \/ char \in ControlChars

escapeCharacter(char) ==
  IF char = "\n" THEN <<BACKSLASH, "n">>
  ELSE IF char = "\r" THEN <<BACKSLASH, "r">>
  ELSE IF char = "\t" THEN <<BACKSLASH, "t">>
  ELSE IF char \in ControlChars THEN <<BACKSLASH, "u", "0", "0", "0", "1">>
  ELSE <<char>>

\* the loop of escapeControlCharacters from a position on
RECURSIVE escapeControlLoop(_, _, _)
escapeControlLoop(s, inString, escapeNext) ==
  IF s = <<>> THEN <<>>
  ELSE LET char == Head(s)
           rest == Tail(s)
       IN IF ~inString THEN <<char>> \o escapeControlLoop(rest, char = QUOTE, escapeNext)
          ELSE IF escapeNext THEN <<char>> \o escapeControlLoop(rest, TRUE, FALSE)
          ELSE IF char = BACKSLASH THEN <<char>> \o escapeControlLoop(rest, TRUE, TRUE)
          ELSE IF char = QUOTE THEN <<char>> \o escapeControlLoop(rest, FALSE, FALSE)
          ELSE IF shouldEscapeCharacter(char)
            THEN escapeCharacter(char) \o escapeControlLoop(rest, TRUE, FALSE)
          ELSE <<char>> \o escapeControlLoop(rest, TRUE, FALSE)

escapeControlCharactersSeq(jsonString) == escapeControlLoop(jsonString, FALSE, FALSE)

\* sanitizeJsonResponse, on characters
sanitizeJsonResponseSeq(jsonString) ==
  escapeControlCharactersSeq(removeJsonCodeFencesSeq(jsonString))

\* ------------------------------------------------ SanitizerSpec: the texts
\* the pieces the texts are made of
TextTokens ==
  {<<BACKTICK>>, FENCE, <<"j", "s", "o", "n">>, <<QUOTE>>, <<BACKSLASH>>,
   <<"\n">>, <<"a">>, <<SOH>>}

MaxTokens == 4

RECURSIVE concat(_)
concat(pieces) ==
  IF pieces = <<>> THEN <<>> ELSE Head(pieces) \o concat(Tail(pieces))

\* every text of at most MaxTokens pieces
TokenTexts ==
  UNION {{concat(p) : p \in [1..n -> TextTokens]} : n \in 0..MaxTokens}

SANITIZERS == {"sanitizeJsonResponse", "sanitizeCompletionJson"}

sanitizeWith(which, x) ==
  IF which = "sanitizeJsonResponse" THEN sanitizeJsonResponseSeq(x)
                                    ELSE sanitizeCompletionJsonSeq(x)

\* --------------------------------------------- JSON.parse, on characters
\* The values: strings, numbers (digit runs), true, and objects as the list
\* of their <<key, value>> members. Arrays and the other literals are left
\* out; a text that needs them does not parse here.
JsonFail == [ok |-> FALSE, value |-> Null, rest |-> <<>>]

JsonRead(value, rest) == [ok |-> TRUE, value |-> value, rest |-> rest]

Members(ms) == [t |-> "object", v |-> ms]

\* the character of a \uXXXX escape
unicodeEscape(hex) ==
  CASE hex = <<"0", "0", "0", "1">> -> <<SOH>>
    [] hex = <<"0", "0", "0", "a">> -> <<"\n">>
    [] hex = <<"0", "0", "0", "d">> -> <<"\r">>
    [] hex = <<"0", "0", "0", "9">> -> <<"\t">>
    [] hex = <<"0", "0", "6", "0">> -> <<BACKTICK>>
    [] OTHER -> <<>>

\* the characters of a string literal after its opening quote
RECURSIVE readChars(_)
readChars(s) ==
  IF s = <<>> THEN JsonFail
  ELSE IF Head(s) = QUOTE THEN JsonRead(<<>>, Tail(s))
  ELSE IF Head(s) \in ControlChars THEN JsonFail
  ELSE IF Head(s) = BACKSLASH
    THEN IF Len(s) < 2 THEN JsonFail
         ELSE LET e == s[2]
                  one == CASE e \in {QUOTE, BACKSLASH, "/"} -> <<e>>
                           [] e = "n" -> <<"\n">>
                           [] e = "r" -> <<"\r">>
                           [] e = "t" -> <<"\t">>
                           [] e = "u" /\ Len(s) >= 6 -> unicodeEscape(SubSeq(s, 3, 6))
                           [] OTHER -> <<>>
                  more == readChars(drop(s, IF e = "u" THEN 6 ELSE 2))
              IN IF one = <<>> \/ ~more.ok THEN JsonFail
                 ELSE JsonRead(one \o more.value, more.rest)
  ELSE LET more == readChars(Tail(s))
       IN IF ~more.ok THEN JsonFail ELSE JsonRead(<<Head(s)>> \o more.value, more.rest)

skipWs(s) == skipWhile(s, WhiteSpace)

RECURSIVE readValue(_)
RECURSIVE readMembers(_)
\* the members of an object after its opening brace or a comma
readMembers(s) ==
  LET afterWs == skipWs(s)
      key == IF startsWith(afterWs, <<QUOTE>>) THEN readChars(Tail(afterWs)) ELSE JsonFail
      afterKey == skipWs(key.rest)
      val == IF key.ok /\ startsWith(afterKey, <<":">>) THEN readValue(Tail(afterKey))
                                                        ELSE JsonFail
      afterVal == skipWs(val.rest)
      more == IF val.ok /\ startsWith(afterVal, <<",">>) THEN readMembers(Tail(afterVal))
                                                         ELSE JsonFail
  IN IF ~val.ok THEN JsonFail
     ELSE IF startsWith(afterVal, <<"}">>)
       THEN JsonRead(<<<<key.value, val.value>>>>, Tail(afterVal))
     ELSE IF more.ok THEN JsonRead(<<<<key.value, val.value>>>> \o more.value, more.rest)
     ELSE JsonFail

readValue(s) ==
  LET afterWs == skipWs(s)
  IN IF afterWs = <<>> THEN JsonFail
     ELSE IF Head(afterWs) = QUOTE
       THEN LET str == readChars(Tail(afterWs))
            IN IF str.ok THEN JsonRead(Str(str.value), str.rest) ELSE JsonFail
     ELSE IF Head(afterWs) \in Digits
       THEN LET rest == skipWhile(afterWs, Digits)
            IN JsonRead([t |-> "number", v |-> SubSeq(afterWs, 1, Len(afterWs) - Len(rest))],
                        rest)
     ELSE IF startsWith(afterWs, <<"t", "r", "u", "e">>)
       THEN JsonRead(Bool(TRUE), drop(afterWs, 4))
     ELSE IF Head(afterWs) = "{"
       THEN IF startsWith(skipWs(Tail(afterWs)), <<"}">>)
              THEN JsonRead(Members(<<>>), Tail(skipWs(Tail(afterWs))))
              ELSE LET ms == readMembers(Tail(afterWs))
                   IN IF ms.ok THEN JsonRead(Members(ms.value), ms.rest) ELSE JsonFail
     ELSE JsonFail

\* JSON.parse(jsonText): [ok, value]
JsonParseSeq(jsonText) ==
  LET r == readValue(jsonText)
  IN IF r.ok /\ skipWs(r.rest) = <<>> THEN [ok |-> TRUE, value |-> r.value]
                                      ELSE [ok |-> FALSE, value |-> Null]

\* --------------------------------------------- JSON texts to sanitize
\* JSON.stringify of a string; with raw = TRUE its control characters are
\* left as they are, which is the invalid JSON the escaping pass repairs
RECURSIVE quoted(_, _)
quoted(chars, raw) ==
  IF chars = <<>> THEN <<>>
  ELSE (IF Head(chars) \in {QUOTE, BACKSLASH} THEN <<BACKSLASH, Head(chars)>>
        ELSE IF Head(chars) \in ControlChars /\ ~raw THEN escapeOf(Head(chars))
        ELSE <<Head(chars)>>)
       \o quoted(Tail(chars), raw)

literal(chars, raw) == <<QUOTE>> \o quoted(chars, raw) \o <<QUOTE>>

\* what the string values of the texts hold
StringContents ==
  {<<"a">>, <<"a", "\n", "b">>, <<SOH>>, <<"\t", "a", "\r">>, <<QUOTE>>,
   <<BACKSLASH>>, <<BACKSLASH, "\n">>, <<BACKSLASH, "n">>,
   FENCE, <<"a">> \o FENCE \o <<"j", "s", "\n", "b">> \o FENCE,
   <<BACKTICK, BACKTICK>>}

\* a value and its JSON text, in four layouts
JsonSource(kind, value, jsonText) ==
  [kind |-> kind, value |-> value, text |-> jsonText]

layouts(c, raw) ==
  {[value |-> Str(c), text |-> literal(c, raw)],
   [value |-> Members(<<<<<<"k">>, Str(c)>>>>),
    text |-> <<"{">> \o literal(<<"k">>, raw) \o <<":">> \o literal(c, raw) \o <<"}">>],
   [value |-> Members(<<<<<<"k">>, Str(c)>>>>),
    text |-> <<"{", "\n", " ">> \o literal(<<"k">>, raw) \o <<":", " ">>
             \o literal(c, raw) \o <<"\n", "}">>],
   [value |-> Members(<<<<<<"k">>, Str(c)>>, <<<<"n">>, [t |-> "number", v |-> <<"5">>]>>>>),
    text |-> <<"{">> \o literal(<<"k">>, raw) \o <<":">> \o literal(c, raw)
             \o <<",">> \o literal(<<"n">>, raw) \o <<":", "5", "}">>]}

\* valid JSON texts
JsonSources ==
  {JsonSource("json", l.value, l.text) : l \in UNION {layouts(c, FALSE) : c \in StringContents}}
  \cup {JsonSource("json", [t |-> "number", v |-> <<"5">>], <<"5">>),
        JsonSource("json", Bool(TRUE), <<"t", "r", "u", "e">>),
        JsonSource("json", Members(<<>>), <<"{", "}">>)}

\* JSON texts whose string values hold raw control characters
RawControlSources ==
  {JsonSource("raw-control", l.value, l.text) :
     l \in UNION {layouts(c, TRUE) :
                    c \in {d \in StringContents : \E i \in 1..Len(d) : d[i] \in ControlChars}}}

LANGUAGE_TAGS == {<<>>, <<"j", "s", "o", "n">>, <<"J", "S", "O", "N">>, <<"j", "s">>}

\* a JSON text inside a Markdown code fence
FencedSources ==
  {JsonSource("fenced", j.value, FENCE \o tag \o open \o j.text \o close \o FENCE) :
     j \in JsonSources, tag \in LANGUAGE_TAGS,
     open \in {<<>>, <<"\n">>}, close \in {<<>>, <<"\n">>}}

TokenSources == {JsonSource("tokens", Undef, x) : x \in TokenTexts}

Sources == TokenSources \cup JsonSources \cup RawControlSources \cup FencedSources

\* ------------------------------------------------ SanitizerSpec: actions
NotSanitized == <<>>

SanitizerInit ==
  /\ HandlerIdle
  /\ srv = <<>>
  /\ fn = <<>>
  /\ dlg = <<>>
  /\ \E which \in SANITIZERS, src \in Sources :
       san = [which |-> which, src |-> src, step |-> 0, escaped |-> NotSanitized,
              once |-> NotSanitized, twice |-> NotSanitized]

escapePass(which, x) ==
  IF which = "sanitizeJsonResponse" THEN escapeControlCharactersSeq(x)
                                    ELSE escapeControlCharactersInJsonStringsSeq(x)

\* the text goes through the sanitizer, and through its escaping pass alone
SanitizeText ==
  /\ san.step = 0
  /\ san' = [san EXCEPT !.step = 1,
                        !.once = sanitizeWith(san.which, san.src.text),
                        !.escaped = escapePass(san.which, san.src.text)]
  /\ UNCHANGED <<pc, variant, req, cachedApiKey, text, scope, clarifications,
                 baseMessages, sent, inflight, calls, received, pending, response, srv,
                 fn, dlg>>

\* what came out goes through the sanitizer again
SanitizeAgain ==
  /\ san.step = 1
  /\ san' = [san EXCEPT !.step = 2, !.twice = sanitizeWith(san.which, san.once)]
  /\ UNCHANGED <<pc, variant, req, cachedApiKey, text, scope, clarifications,
                 baseMessages, sent, inflight, calls, received, pending, response, srv,
                 fn, dlg>>

SanitizerNext ==
  \/ SanitizeText
  \/ SanitizeAgain

SanitizerSpec == SanitizerInit /\ [][SanitizerNext]_vars

\* C21: the sanitizer is idempotent: sanitizing what it returned returns the
\* same text, for every text, of either sanitizer.
C21_Idempotent == san.step = 2 => san.twice = san.once

\* a text with a fence, an open string literal and a control character in
\* it went through twice and was changed the first time
C21_Witness ==
  /\ san.step = 2
  /\ san.src.text = FENCE \o <<QUOTE, "\n", "a">>
  /\ san.once = <<QUOTE, BACKSLASH, "n", "a">>
  /\ san.twice = san.once

\* where a JSON reader stands after each character of x: inside a string
\* literal or not, and directly after the backslash of an escape or not
RECURSIVE literalState(_, _)
literalState(x, i) ==
  IF i = 0 THEN [inLiteral |-> FALSE, escaped |-> FALSE]
  ELSE LET before == literalState(x, i - 1)
       IN IF ~before.inLiteral THEN [inLiteral |-> x[i] = QUOTE, escaped |-> FALSE]
          ELSE IF before.escaped THEN [inLiteral |-> TRUE, escaped |-> FALSE]
          ELSE [inLiteral |-> x[i] # QUOTE, escaped |-> x[i] = BACKSLASH]

\* the JSON escape sequence of a character below 0x20
jsonEscape(c) ==
  CASE c = "\n" -> <<BACKSLASH, "n">>
    [] c = "\r" -> <<BACKSLASH, "r">>
    [] c = "\t" -> <<BACKSLASH, "t">>
    [] c = SOH -> <<BACKSLASH, "u", "0", "0", "0", "1">>

\* what may stand for character i of x in the output of the escaping pass
allowedPieces(x, i) ==
  LET before == literalState(x, i - 1)
  IN IF ~before.inLiteral \/ x[i] \notin ControlChars THEN {<<x[i]>>}
     ELSE IF i > 1 /\ x[i - 1] = BACKSLASH /\ before.escaped
       THEN {<<x[i]>>, jsonEscape(x[i])}
     ELSE {jsonEscape(x[i])}

\* the outputs that replace what has to be replaced and copy the rest
RECURSIVE allowedOutputs(_, _)
allowedOutputs(x, i) ==
  IF i > Len(x) THEN {<<>>}
  ELSE {piece \o rest : piece \in allowedPieces(x, i), rest \in allowedOutputs(x, i + 1)}

\* the text holds three backticks in a row
hasFence(x) == \E i \in 1..Len(x) - 2 : SubSeq(x, i, i + 2) = FENCE

\* C22: the escaping pass replaces every control character that stands
\* inside a string literal and not directly after a backslash by its JSON
\* escape sequence and copies every character outside string literals (and
\* every other character) unchanged; a JSON text whose string values hold
\* raw control characters comes out of the pass as text that parses to the
\* same value, and so it comes out of the whole sanitizer when the text
\* holds no triple backtick for the fence removal to act on.
C22_EscapingPass ==
  san.step >= 1
  => /\ san.escaped \in allowedOutputs(san.src.text, 1)
     /\ san.src.kind = "raw-control"
          => /\ JsonParseSeq(san.escaped) = [ok |-> TRUE, value |-> san.src.value]
             /\ ~hasFence(san.src.text)
                  => JsonParseSeq(san.once) = [ok |-> TRUE, value |-> san.src.value]

\* an object whose string value holds a raw newline went through the pass
C22_Witness ==
  /\ san.step >= 1
  /\ san.src.kind = "raw-control"
  /\ san.src.value = Members(<<<<<<"k">>, Str(<<"a", "\n", "b">>)>>>>)
  /\ ~JsonParseSeq(san.src.text).ok
  /\ san.escaped # san.src.text
  /\ JsonParseSeq(san.escaped).ok

\* C23: sanitizing is lossless: a text that is valid JSON comes out as text
\* that parses to the same value, so that every string value keeps its
\* content, triple backticks included.
C23_Lossless ==
  (san.step >= 1 /\ JsonParseSeq(san.src.text).ok)
  => JsonParseSeq(san.once) = JsonParseSeq(san.src.text)

\* C24: a JSON text wrapped in a Markdown code fence, with or without a
\* language tag and with or without newlines inside the delimiters, comes
\* out as text that parses to the value of the JSON text.
C24_FenceRemoved ==
  (san.step >= 1 /\ san.src.kind = "fenced")
  => JsonParseSeq(san.once) = [ok |-> TRUE, value |-> san.src.value]

\* the clarification-loop handler took the fallback to the legacy structure:
\* the document is neither a not_enough verdict nor a validated enough one
LegacyFallbackTaken ==
  /\ variant = "loop"
  /\ pc = "done"
  /\ Truthy(primaryDocument)
  /\ ~VerdictNotEnough
  /\ ~(verdict.ok /\ Get(verdict.value, "status") = Str(s_enough))

\* the value the fallback normalizes: rawObj.issueType ?? rawObj.type
fallbackIssueType ==
  IF Nullish(Get(primaryDocument, "issueType")) THEN Get(primaryDocument, "type")
                                                ELSE Get(primaryDocument, "issueType")

\* the key each value of the catalogue stands for
expectedIssueType(x) ==
  CASE x \in {Str(s_bug), Str(s_Bug), Str(s_BUG), Str(s_defect)} -> Str(s_bug)
    [] x = Str(s_User_Story) -> Str(s_story)
    [] OTHER -> Null

\* C25: normalizeIssueType folds case, turns each run of non-letters into
\* one underscore and looks the token up among the keys, labels and aliases:
\* Bug, defect and BUG yield bug; the result is one of the ten keys or null;
\* an unrecognized string and every value that is no string yield null.
C25_NormalizeIssueType ==
  LegacyFallbackTaken
  => LET result == normalizeIssueType(fallbackIssueType)
     IN /\ result = expectedIssueType(fallbackIssueType)
        /\ result = Null \/ isIssueTypeKey(result)
        /\ ~isString(fallbackIssueType) => result = Null
        /\ result = Null => response = Reject(502, "Unexpected AI response - missing required fields")
        /\ response.kind = "body" => response.body["issueType"] = result

\* BUG came back as bug in a ticket made by the fallback
C25_Witness ==
  /\ LegacyFallbackTaken
  /\ fallbackIssueType = Str(s_BUG)
  /\ response.kind = "body"
  /\ response.body["status"] = Str(s_done)
  /\ response.body["issueType"] = Str(s_bug)

\* ------------------------------------------------------------ ServerSpec
\* The clarification-loop handler serving requests side by side: a handler
\* is suspended at each await, and other requests run meanwhile. srv holds
\*   openaiClient, cachedApiKey  the module-level variables of prompt.ts
\*                               (a client is the index of its construction
\*                               in clients; 0 is null)
\*   clients                     the credential each client was built with
\*   gets                        the calls of getOpenAIClient, in order
\*   issued                      the completion calls issued
\*   slot                        the requests in flight, with their locals
\*   served                      the requests answered so far
\*   started                     requests accepted so far
OTHER_KEY == <<"o">>

MaxRequests == 3

Slots == {1, 2}

\* a first request under each credential, and a request that comes with
\* MAX_CLARIFICATIONS answers
ServerRequests ==
  {[text |-> Str(REQUEST_TEXT), scope |-> Undef, previousClarifications |-> Undef,
    apiKey |-> k] : k \in {API_KEY, OTHER_KEY}}
  \cup {[text |-> Str(REQUEST_TEXT), scope |-> Undef,
          previousClarifications |->
            Arr([n \in 1..MAX_CLARIFICATIONS |-> Str(CLARIFICATION_ENTRY)]),
          apiKey |-> API_KEY]}

ServerPrimaryOutputs ==
  {Returned(Content(JsonText(ENOUGH_VALID))), Returned(Content(JsonText(NOT_ENOUGH_VALID))),
   Returned(Content(JsonText(NOT_ENOUGH_BARE)))}

ServerFallbackOutputs ==
  {Returned(Content(ProseText(QUESTION))), Failed("RateLimitError", 429)}

IdleSlot ==
  [pc |-> "idle", req |-> NoRequest, client |-> 0, text |-> <<>>, clarifications |-> <<>>,
   received |-> <<>>, pending |-> NoResponse, response |-> NoResponse]

ServerInit ==
  /\ HandlerIdle
  /\ san = <<>>
  /\ fn = <<>>
  /\ dlg = <<>>
  /\ srv = [openaiClient |-> 0, cachedApiKey |-> Null, clients |-> <<>>, gets |-> <<>>,
            issued |-> {}, slot |-> [i \in Slots |-> IdleSlot], served |-> {},
            started |-> 0]

getOpenAIClientIn_keyNotRecorded(s, apiKey) ==
  LET construct == s.openaiClient = 0 \/ s.cachedApiKey # Str(apiKey)
      client == IF construct THEN Len(s.clients) + 1 ELSE s.openaiClient
  IN [s EXCEPT !.openaiClient = client,
               !.clients = IF construct THEN Append(@, apiKey) ELSE @,
               !.gets = Append(@, [apiKey |-> apiKey, returned |-> client,
                                   constructed |-> construct])]

\* getOpenAIClient(apiKey) on the module-level variables held in s
getOpenAIClientIn(s, apiKey) ==
  LET construct == s.openaiClient = 0 \/ s.cachedApiKey # Str(apiKey)
      client == IF construct THEN Len(s.clients) + 1 ELSE s.openaiClient
  IN [s EXCEPT !.openaiClient = client,
               !.cachedApiKey = IF construct THEN Str(apiKey) ELSE @,
               !.clients = IF construct THEN Append(@, apiKey) ELSE @,
               !.gets = Append(@, [apiKey |-> apiKey, returned |-> client,
                                   constructed |-> construct])]

clientOf_shared(s, i) == s.openaiClient

\* the client a suspended handler issues its next call through: its local
\* constant client
clientOf(s, i) == s.slot[i].client

\* complete(client, ...) is called by the request in slot i (cached: the
\* process-wide client at that moment)
issueThrough(s, i, client) ==
  [s EXCEPT !.issued = @ \cup {[apiKey |-> s.slot[i].req.apiKey, via |-> client,
                                 stage |-> s.slot[i].pc, cached |-> s.openaiClient]}]

clarificationsOf_session(s, i) == [n \in 1..s.started |-> CLARIFICATION_ENTRY]

\* the clarifications of the request in slot i, as the handler normalized them
clarificationsOf(s, i) == s.slot[i].clarifications

handlerUnchanged ==
  UNCHANGED <<pc, variant, req, cachedApiKey, text, scope, clarifications,
              baseMessages, sent, inflight, calls, received, pending, response, san,
              fn, dlg>>

\* the handler runs from the arrival of the request to its first await
ServerAccept ==
  \E i \in Slots, r \in ServerRequests :
    /\ srv.slot[i].pc = "idle"
    /\ srv.started < MaxRequests
    /\ LET got == getOpenAIClientIn(srv, trim(r.apiKey))
           accepted ==
             [got EXCEPT !.started = @ + 1,
                         !.slot[i] = [IdleSlot EXCEPT
                                        !.pc = "primary", !.req = r,
                                        !.client = got.openaiClient,
                                        !.text = trim(r.text.v),
                                        !.clarifications =
                                          normalizeClarifications(r.previousClarifications)]]
       IN srv' = issueThrough(accepted, i, got.openaiClient)
    /\ handlerUnchanged

\* the primary call of a request returns
ServerPrimaryReturns ==
  \E i \in Slots, out \in ServerPrimaryOutputs :
    /\ srv.slot[i].pc = "primary"
    /\ LET d == loopPrimary(out, clarificationsOf(srv, i))
           returned == [srv EXCEPT !.slot[i].received = Append(@, out)]
       IN IF d.kind = "fallback"
            THEN srv' = issueThrough([returned EXCEPT !.slot[i].pc = "fallback",
                                                      !.slot[i].pending = d.response],
                                     i, clientOf(srv, i))
            ELSE srv' = [returned EXCEPT !.slot[i].pc = "done",
                                         !.slot[i].response = d.response]
    /\ handlerUnchanged

\* the clarification-only call of a request returns
ServerFallbackReturns ==
  \E i \in Slots, out \in ServerFallbackOutputs :
    /\ srv.slot[i].pc = "fallback"
    /\ srv' = [srv EXCEPT
                 !.slot[i].received = Append(@, out),
                 !.slot[i].pc = "done",
                 !.slot[i].response = buildFallbackClarification(out, srv.slot[i].pending)]
    /\ handlerUnchanged

\* the response of a request is delivered
ServerDeliver ==
  \E i \in Slots :
    /\ srv.slot[i].pc = "done"
    /\ srv' = [srv EXCEPT
                 !.served = @ \cup {[req |-> srv.slot[i].req,
                                     received |-> srv.slot[i].received,
                                     response |-> srv.slot[i].response]},
                 !.slot[i] = IdleSlot]
    /\ handlerUnchanged

ServerNext ==
  \/ ServerAccept
  \/ ServerPrimaryReturns
  \/ ServerFallbackReturns
  \/ ServerDeliver

ServerSpec == ServerInit /\ [][ServerNext]_vars

\* C26: the client a call of getOpenAIClient returns was constructed with
\* the credential passed to that call; the call constructs a client exactly
\* when none exists or the credential differs from that of the call before;
\* two calls in a row with the same credential return the same client.
C26_ClientPerCredential ==
  \A n \in 1..Len(srv.gets) :
    LET get == srv.gets[n]
    IN /\ srv.clients[get.returned] = get.apiKey
       /\ get.constructed <=> (n = 1 \/ srv.gets[n - 1].apiKey # get.apiKey)
       /\ get.constructed
            => \A m \in 1..(n - 1) : srv.gets[m].returned # get.returned
       /\ (n > 1 /\ srv.gets[n - 1].apiKey = get.apiKey)
            => get.returned = srv.gets[n - 1].returned

\* three calls: k, then the other credential, then the other one again
C26_Witness ==
  /\ Len(srv.gets) = 3
  /\ srv.gets[1].apiKey = API_KEY
  /\ srv.gets[2].apiKey = OTHER_KEY
  /\ srv.gets[3].apiKey = OTHER_KEY
  /\ srv.gets[2].constructed
  /\ ~srv.gets[3].constructed
  /\ srv.gets[3].returned = srv.gets[2].returned

\* the invocations that have produced their response: request body and
\* credential, the upstream outputs received, and the response
finishedInvocations ==
  srv.served
  \cup {[req |-> srv.slot[i].req, received |-> srv.slot[i].received,
         response |-> srv.slot[i].response] : i \in {j \in Slots : srv.slot[j].pc = "done"}}

\* C28: the controller is stateless across invocations: two invocations
\* with the same request body, the same credential and the same upstream
\* outputs have the same response, whatever was served before them.
C28_Stateless ==
  \A a, b \in finishedInvocations :
    (a.req = b.req /\ a.received = b.received) => a.response = b.response

\* a request was answered, then one with the other credential, and now the
\* first one has been served again with the same outputs
C28_Witness ==
  \E i \in Slots, a, b \in srv.served :
    /\ srv.slot[i].pc = "done"
    /\ a.req = srv.slot[i].req
    /\ a.received = srv.slot[i].received
    /\ Len(a.received) = 2
    /\ a.response = srv.slot[i].response
    /\ a.response.kind = "body"
    /\ b.req.apiKey # a.req.apiKey
    /\ srv.gets[1].apiKey = a.req.apiKey
    /\ srv.gets[2].apiKey = b.req.apiKey

\* C30: under any interleaving of requests with different credentials every
\* completion call of a request goes through a client constructed with that
\* request's credential, also when another request has replaced the cached
\* client while the request was suspended on an upstream call.
C30_OwnClient ==
  \A c \in srv.issued : srv.clients[c.via] = trim(c.apiKey)

\* a request issued its clarification-only call through its own client
\* after a request with another credential had replaced the cached one
C30_Witness ==
  \E c \in srv.issued :
    /\ c.stage = "fallback"
    /\ c.cached # c.via
    /\ srv.clients[c.cached] # trim(c.apiKey)
    /\ srv.clients[c.via] = trim(c.apiKey)

\* --------------------------------------------- C27: upstream API errors
\* the completion call that ended the request, when it failed upstream
failedCall == received[Len(received)]

UpstreamFailure ==
  /\ pc = "done"
  /\ received # <<>>
  /\ failedCall.kind # "choice"

\* C27: when a completion call of a request fails upstream, the caller gets
\* a 500 error 'Invalid OpenAI API key' for an authentication error, a 429
\* error for a rate-limit error, and for any other API error an error with
\* the upstream status (502 when there is none), whichever call failed.
C27_UpstreamErrorsMapped ==
  UpstreamFailure
  => /\ response.kind = "http"
     /\ failedCall.kind = "AuthenticationError"
        => response.err = HttpError(500, "Invalid OpenAI API key")
     /\ failedCall.kind = "RateLimitError" => response.err.statusCode = 429
     /\ failedCall.kind = "APIError"
        => response.err.statusCode
             = (IF failedCall.status # 0 THEN failedCall.status ELSE 502)

\* the same for the calls of generateJiraTask alone, which the legacy and
\* the two-phase handler wrap in their catch block
GenerationErrorsMapped ==
  (UpstreamFailure /\ variant # "loop"
     /\ ~(variant = "two-phase" /\ Len(received) = 1))
  => response = mapApiError(failedCall)

\* ------------------------------------------- C29: the legacy sanity gate
\* a ticket response that did not come through the enriched schema: the
\* ticket of generateJiraTask in the legacy and the two-phase handler, and
\* the legacy fallback of handleJiraEnhanced in the clarification loop
NonEnrichedTicket ==
  /\ pc = "done"
  /\ response.kind = "body"
  /\ response.body["title"] # Undef
  /\ response.body["status"] \in {Undef, Str(s_done)}
  /\ variant = "loop" => LegacyFallbackTaken

returnedTicket ==
  Obj([title |-> response.body["title"], description |-> response.body["description"]])

\* C29: every ticket returned through the legacy (non-enriched) path
\* passes the sanity gate: its title matches ^\[[A-Z0-9+-]+\]: and its
\* description has at least 40 characters.
C29_LegacyTicketPassesGate ==
  NonEnrichedTicket => isValidJiraTask(returnedTicket)

\* the same for the tickets of generateJiraTask alone
GenerationTicketPassesGate ==
  (NonEnrichedTicket /\ variant # "loop") => isValidJiraTask(returnedTicket)

\* ---------------------------------------------------------- FunctionSpec
\* The functions of the program that depend on their argument alone, each
\* applied to an argument drawn from a bounded set.
s_ux == <<"u", "x">>

SCOPE_KEYS == {DEFAULT_SCOPE_KEY, s_api, s_ux}

MaxScopes == 3

\* the scope lists a request can carry: one to MaxScopes tags, repeated
\* tags included
ScopeLists == UNION {[1..n -> SCOPE_KEYS] : n \in 1..MaxScopes}

PrefixInputs ==
  {[op |-> op, arg |-> l] : op \in {"buildPrompt", "buildIssueContext"}, l \in ScopeLists}

\* ------------------------------------------------ C35: content flattening
\* Message content as the client library can hand it over: a string, null,
\* undefined, a number, an array of parts, or an object part with the
\* fields text, content and arguments.
Part(t, c, g) == [t |-> "object", v |-> [text |-> t, content |-> c, arguments |-> g]]

s_a == <<"a">>

s_b == <<"b">>

s_c == <<"c">>

ContentLeaves == {Undef, Null, Str(<<>>), Str(s_a), Num}

SimpleParts ==
  {Part(t, c, g) : t \in ContentLeaves, c \in {Undef, Str(<<>>), Str(s_b)},
                   g \in {Undef, Str(s_c), Num}}

InnerContents ==
  {Part(Str(s_a), Undef, Undef), Part(Undef, Undef, Undef),
   Arr(<<Str(s_a), Str(s_b)>>), Arr(<<>>)}

NestedParts ==
  UNION {{Part(x, Undef, Undef), Part(x, Str(s_b), Undef), Part(Undef, x, Undef),
          Part(Undef, x, Str(s_c)), Part(Undef, Undef, x)} : x \in InnerContents}

ArrayParts ==
  {Str(s_a), Str(<<>>), Null, Part(Str(s_a), Undef, Undef), Part(Undef, Str(s_b), Undef),
   Part(Str(<<>>), Str(s_b), Undef), Arr(<<Str(s_c)>>)}

MaxParts == 2

ContentArrays == {Arr(xs) : xs \in UNION {[1..n -> ArrayParts] : n \in 0..MaxParts}}

Contents == ContentLeaves \cup SimpleParts \cup NestedParts \cup ContentArrays

FlattenInputs == {[op |-> "flatten", arg |-> c] : c \in Contents}

\* flatten of the clarification loop, on the characters
RECURSIVE flattenSeq(_)
flattenSeq(content) ==
  IF ~Truthy(content) THEN <<>>
  ELSE IF isString(content) THEN content.v
  ELSE IF isArray(content)
    THEN concat([i \in 1..Len(content.v) |-> flattenSeq(content.v[i])])
  ELSE IF content.t = "object"
    THEN flattenSeq(IF ~Nullish(Get(content, "text")) THEN Get(content, "text")
                    ELSE IF ~Nullish(Get(content, "content")) THEN Get(content, "content")
                    ELSE Get(content, "arguments"))
  ELSE <<>>

\* flattenMessageContent of the legacy and two-phase handlers
RECURSIVE flattenMessageContentSeq(_)
flattenMessageContentSeq(content) ==
  IF ~Truthy(content) THEN <<>>
  ELSE IF isString(content) THEN content.v
  ELSE IF isArray(content)
    THEN concat([i \in 1..Len(content.v) |-> flattenMessageContentSeq(content.v[i])])
  ELSE IF content.t = "object"
    THEN IF flattenMessageContentSeq(Get(content, "text")) # <<>>
           THEN flattenMessageContentSeq(Get(content, "text"))
         ELSE IF flattenMessageContentSeq(Get(content, "content")) # <<>>
           THEN flattenMessageContentSeq(Get(content, "content"))
         ELSE IF isString(Get(content, "arguments")) THEN Get(content, "arguments").v
         ELSE <<>>
  ELSE <<>>

NotApplied == <<>>

\* the names of the i-th issue type: its key, its label and its aliases
registryNames(i) ==
  <<ISSUE_TYPE_LIST[i].key, ISSUE_TYPE_LIST[i].label>> \o ISSUE_TYPE_LIST[i].aliases

RegistryInputs ==
  UNION {{[op |-> "normalizeIssueType", arg |-> [type |-> i, name |-> registryNames(i)[j]]] :
            j \in 1..Len(registryNames(i))} : i \in 1..Len(ISSUE_TYPE_LIST)}

FunctionInputs == PrefixInputs \cup FlattenInputs \cup RegistryInputs

FunctionInit ==
  /\ HandlerIdle
  /\ san = <<>>
  /\ srv = <<>>
  /\ dlg = <<>>
  /\ \E i \in FunctionInputs : fn = [op |-> i.op, arg |-> i.arg, step |-> 0, out |-> NotApplied]

Applied(out) ==
  /\ fn.step = 0
  /\ fn' = [fn EXCEPT !.step = 1, !.out = out]
  /\ UNCHANGED <<pc, variant, req, cachedApiKey, text, scope, clarifications,
                 baseMessages, sent, inflight, calls, received, pending, response,
                 san, srv, dlg>>

\* the user message of the legacy and two-phase handlers is built
ApplyBuildPrompt ==
  /\ fn.op = "buildPrompt"
  /\ Applied(buildPrompt(REQUEST_TEXT, fn.arg))

\* the user message of the clarification loop is built
ApplyBuildIssueContext ==
  /\ fn.op = "buildIssueContext"
  /\ Applied(buildIssueContext(REQUEST_TEXT, <<>>, fn.arg))

\* both flatteners are applied to the content
FlattenContent ==
  /\ fn.op = "flatten"
  /\ Applied([loop |-> flattenSeq(fn.arg), legacy |-> flattenMessageContentSeq(fn.arg)])

\* a name of the registry is looked up as an issue type
NormalizeRegistryName ==
  /\ fn.op = "normalizeIssueType"
  /\ Applied([token |-> normalizeToken(fn.arg.name),
              key |-> normalizeIssueType(Str(fn.arg.name))])

FunctionNext ==
  \/ NormalizeRegistryName
  \/ ApplyBuildPrompt
  \/ ApplyBuildIssueContext
  \/ FlattenContent

FunctionSpec == FunctionInit /\ [][FunctionNext]_vars

\* ------------------------------------------------- C31: the title prefix
\* the pieces of s between the occurrences of the character sep
RECURSIVE split(_, _)
split(s, sep) ==
  IF \A i \in 1..Len(s) : s[i] # sep THEN <<s>>
  ELSE LET k == CHOOSE i \in 1..Len(s) : s[i] = sep /\ \A j \in 1..i - 1 : s[j] # sep
       IN <<SubSeq(s, 1, k - 1)>> \o split(SubSeq(s, k + 1, Len(s)), sep)

PrefixBuilt == fn # <<>> /\ fn.step = 1 /\ fn.op \in {"buildPrompt", "buildIssueContext"}

\* C31: the title prefix put into the user message is the scope tags in
\* request order, each in upper case, joined by '+': a single scope gives
\* its upper-case name, and no scope is dropped, duplicated or reordered.
C31_TitlePrefix ==
  PrefixBuilt
  => LET prefix == fn.out.v.prefix
         names == split(prefix, "+")
     IN /\ Len(names) = Len(fn.arg)
        /\ \A i \in 1..Len(fn.arg) : names[i] = toUpperCase(fn.arg[i])
        /\ Len(fn.arg) = 1 => prefix = toUpperCase(fn.arg[1])
        /\ \A i \in 1..Len(prefix) : prefix[i] \notin LowerCase

C31_Witness ==
  /\ PrefixBuilt
  /\ fn.op = "buildIssueContext"
  /\ fn.arg = <<s_api, DEFAULT_SCOPE_KEY, s_api>>
  /\ fn.out.v.prefix = <<"A", "P", "I", "+", "U", "I", "+", "A", "P", "I">>

\* ------------------------------------------------ C32: diagnostic logging
\* What the request being served has written to the console so far, as the
\* list of its log lines; production is process.env.NODE_ENV = 'production'.
\* logDebug writes outside production only
logDebug(production, step) == IF production THEN <<>> ELSE <<step>>

\* console.warn and console.error called directly
consoleWrite(step) == <<step>>

\* extractCompletionPayload and the JSON.parse that follows it, for the
\* i-th completion of the legacy or two-phase handler
completionLog(production, i) ==
  IF received[i].kind # "choice" \/ ~extractCompletionPayload(received[i].choice).ok
    THEN <<>>
    ELSE logDebug(production, "payload")
           \o (IF JsonParse(extractCompletionPayload(received[i].choice).cleaned).ok
                 THEN <<>> ELSE logDebug(production, "parse error"))

\* parseJson of the clarification loop
parseJsonLog(input) ==
  IF ~JsonParse(input).ok /\ fixTrailingCommas(input) # input
    THEN consoleWrite("Attempting to fix malformed JSON") ELSE <<>>

\* the clarification-loop handler, from its first line to its response
loopLog ==
  IF calls = 0 THEN <<>>
  ELSE consoleWrite("Using model")
         \o (IF Len(received) >= 1 /\ received[1].kind = "choice"
                  /\ extractPayload(received[1].choice).ok
               THEN parseJsonLog(extractPayload(received[1].choice).cleaned)
                      \o (IF Truthy(primaryDocument) THEN <<>>
                          ELSE consoleWrite("Invalid JSON from model"))
               ELSE <<>>)

RECURSIVE completionLogs(_, _)
completionLogs(production, n) ==
  IF n = 0 THEN <<>>
  ELSE completionLogs(production, n - 1) \o completionLog(production, n)

consoleOutput(production) ==
  IF variant = "loop" THEN loopLog ELSE completionLogs(production, Len(received))

\* C32: while the environment is production no diagnostic log of the
\* pipeline is written: no payload preview, no parse or validation outcome,
\* no line naming the model in use.
C32_SilentInProduction == consoleOutput(TRUE) = <<>>

\* the same for the handlers that log through logDebug alone
LogDebugSilentInProduction == variant # "loop" => consoleOutput(TRUE) = <<>>

\* ---------------------------------------------------------- DialogueSpec
\* The form (FormPrompt) in dialogue with the clarification-loop handler:
\* the form keeps previousClarifications between requests, the server keeps
\* nothing but its client.
MaxDialogues == 2

MaxDialogueRequests == 6

\* what the user can type into the clarification modal
CLARIFICATION_MESSAGES == {<<"a">>, <<"b", " ", "c">>}

NoOutcome == [kind |-> "none", status |-> <<>>]

\* a fresh form before its first submission
FreshForm ==
  [prompt |-> <<>>, previousClarifications |-> <<>>, phase |-> "form",
   requests |-> 0, needsInfo |-> 0, dialogues |-> 0, last |-> NoOutcome]

DialogueInit ==
  /\ HandlerIdle
  /\ san = <<>>
  /\ srv = <<>>
  /\ fn = <<>>
  /\ dlg = FreshForm

\* the body of useFetch: text, scope and previousClarifications of the form
formRequest(form) ==
  [text |-> Str(form.prompt), scope |-> Arr(<<Str(DEFAULT_SCOPE_KEY)>>),
   previousClarifications |->
     Arr([i \in 1..Len(form.previousClarifications) |-> Str(form.previousClarifications[i])]),
   apiKey |-> API_KEY]

resetForInitialRequest(form) == [form EXCEPT !.previousClarifications = <<>>]

submitClarification_replace(previous, message) == <<message>>

\* previousClarifications.value = [...previousClarifications.value, message]
submitClarification(previous, message) == Append(previous, message)

\* what handleResponse makes of the outcome of a request: the modal opens
\* for needs_info, everything else ends the dialogue
statusOf(r) ==
  [kind |-> r.kind,
   status |-> IF r.kind = "body" /\ isString(r.body["status"])
                THEN r.body["status"].v ELSE <<>>]

handleResponse(form, r) ==
  IF r.kind = "body" /\ r.body["status"] = Str(s_needs_info)
    THEN [form EXCEPT !.phase = "clarify", !.needsInfo = @ + 1, !.last = statusOf(r)]
    ELSE [form EXCEPT !.phase = "closed", !.last = statusOf(r)]

handlerUntouched ==
  UNCHANGED <<pc, variant, req, cachedApiKey, text, scope, clarifications,
              baseMessages, sent, inflight, calls, received, pending, response,
              san, srv, fn>>

\* the user submits the form: a new dialogue starts
OnSubmit ==
  \E prompt \in {REQUEST_TEXT, s_blank} :
    /\ pc = "idle"
    /\ dlg.phase # "sending"
    /\ dlg.dialogues < MaxDialogues
    /\ dlg' = [resetForInitialRequest(dlg) EXCEPT
                 !.prompt = prompt, !.phase = "sending", !.requests = 1,
                 !.needsInfo = 0, !.dialogues = @ + 1, !.last = NoOutcome]
    /\ handlerUntouched

\* the user answers the question of the modal with a non-blank message
SubmitClarification ==
  \E message \in CLARIFICATION_MESSAGES :
    /\ pc = "idle"
    /\ dlg.phase = "clarify"
    /\ dlg.requests < MaxDialogueRequests
    /\ dlg' = [dlg EXCEPT
                 !.previousClarifications = submitClarification(@, message),
                 !.phase = "sending", !.requests = @ + 1]
    /\ handlerUntouched

\* the request of the form reaches the handler
ServeForm ==
  /\ dlg.phase = "sending"
  /\ LoopRequest(formRequest(dlg))

\* runPrompt resumes with the outcome of the request
HandleResponse ==
  /\ pc = "done"
  /\ dlg.phase = "sending"
  /\ dlg' = handleResponse(dlg, response)
  /\ handlerUntouched

\* the request is over on the server
FormDelivered ==
  /\ dlg.phase # "sending"
  /\ Deliver

DialogueNext ==
  \/ OnSubmit
  \/ SubmitClarification
  \/ ServeForm
  \/ LoopPrimaryReturns
  \/ LoopFallbackReturns
  \/ HandleResponse
  \/ FormDelivered

DialogueSpec == DialogueInit /\ [][DialogueNext]_vars

\* C33: in a dialogue in which the form carries previousClarifications
\* forward, one non-blank entry per needs_info response, and resets them on
\* a fresh submission, the server answers needs_info at most 3 times and
\* the dialogue is over (done, the terminal error, or a failure) after at
\* most 4 requests.
C33_DialogueBounded ==
  /\ dlg.needsInfo <= MAX_CLARIFICATION_ROUNDS
  /\ dlg.requests <= MAX_CLARIFICATION_ROUNDS + 1
  /\ dlg.phase = "sending" => Len(dlg.previousClarifications) = dlg.requests - 1
  /\ pc \in {"primary", "fallback", "done"}
     => Len(clarifications) = Len(dlg.previousClarifications)
  /\ (dlg.requests = MAX_CLARIFICATION_ROUNDS + 1 /\ dlg.phase # "sending")
     => /\ dlg.phase = "closed"
        /\ dlg.last.status # s_needs_info

C33_Witness ==
  /\ dlg.requests = MAX_CLARIFICATION_ROUNDS + 1
  /\ dlg.needsInfo = MAX_CLARIFICATION_ROUNDS
  /\ dlg.phase = "closed"
  /\ dlg.last = [kind |-> "body", status |-> s_error]
  /\ dlg.previousClarifications = <<<<"a">>, <<"b", " ", "c">>, <<"a">>>>

\* ----------------------------------------- C34: the cap and enough verdicts
\* the request came with the maximum number of clarifications or more
CapReached == variant = "loop" /\ Len(clarifications) >= MAX_CLARIFICATIONS

EnoughVerdict == verdict.ok /\ Get(verdict.value, "status") = Str(s_enough)

MaxRoundsResponse ==
  /\ response.kind = "body"
  /\ response.body["status"] = Str(s_error)

\* C34: the round cap applies to not_enough verdicts only: a request with 3
\* or more prior clarifications whose verdict is a valid enough payload is
\* answered with status done, its completion call having been issued; the
\* terminal error is the answer to a not_enough verdict alone.
C34_CapOnlyForNotEnough ==
  /\ (CapReached /\ pc # "idle") => calls >= 1
  /\ (CapReached /\ pc = "done" /\ EnoughVerdict)
     => /\ response = enhancedResponse(verdict.value)
        /\ response.kind = "body"
        /\ response.body["status"] = Str(s_done)
        /\ calls = 1
  /\ (variant = "loop" /\ pc = "done" /\ MaxRoundsResponse)
     => /\ VerdictNotEnough
        /\ CapReached

C34_Witness ==
  /\ CapReached
  /\ pc = "done"
  /\ EnoughVerdict
  /\ Len(req.previousClarifications.v) = MAX_CLARIFICATIONS
  /\ calls = 1
  /\ response.kind = "body"
  /\ response.body["status"] = Str(s_done)
  /\ response.body["title"] = Str(TITLE_OK)

ContentFlattened == fn # <<>> /\ fn.step = 1 /\ fn.op = "flatten"

\* the text of an object part as claimed: its text, else its content, else
\* its arguments, the next field being taken whenever the earlier one
\* yields no text
partText(flat(_), part) ==
  IF flat(Get(part, "text")) # <<>> THEN flat(Get(part, "text"))
  ELSE IF flat(Get(part, "content")) # <<>> THEN flat(Get(part, "content"))
  ELSE flat(Get(part, "arguments"))

\* C35: flattening an array gives the texts of its parts in order, an
\* object part gives its text, else its content, else its arguments
\* (falling through whenever the earlier field yields no text), and the
\* flatten of the clarification loop and flattenMessageContent return the
\* same string for every content.
C35_FlattenAgree ==
  ContentFlattened
  => /\ isArray(fn.arg)
        => fn.out.loop = concat([i \in 1..Len(fn.arg.v) |-> flattenSeq(fn.arg.v[i])])
     /\ fn.arg.t = "object" => fn.out.loop = partText(flattenSeq, fn.arg)
     /\ fn.out.loop = fn.out.legacy

\* flattenMessageContent alone falls through as claimed, for the parts
\* whose arguments are a string or absent
LegacyFallsThrough ==
  (ContentFlattened /\ fn.arg.t = "object"
     /\ (isString(Get(fn.arg, "arguments")) \/ Nullish(Get(fn.arg, "arguments"))))
  => fn.out.legacy = partText(flattenMessageContentSeq, fn.arg)

\* the two agree on strings, null, undefined and arrays of strings, which
\* is what the completion API returns as content
FlattenAgreeOnText ==
  (ContentFlattened
     /\ (\/ fn.arg.t \in {"string", "null", "undefined", "number"}
         \/ isStringArray(fn.arg)))
  => fn.out.loop = fn.out.legacy

\* ------------------------------------------- C38: the issue-type registry
RegistryNameNormalized == fn # <<>> /\ fn.step = 1 /\ fn.op = "normalizeIssueType"

\* C38: no normalized token of the registry is claimed by two issue types:
\* the key, the label and every alias of an issue type normalize to a token
\* that every entry of the alias map gives to that type's own key, so each
\* key normalizes to itself and the map does not depend on the order in
\* which the registry is walked.
C38_RegistryUnambiguous ==
  RegistryNameNormalized
  => LET own == ISSUE_TYPE_LIST[fn.arg.type].key
     IN /\ fn.out.token # <<>>
        /\ fn.out.key = Str(own)
        /\ \A k \in 1..Len(ISSUE_TYPE_ALIAS_ENTRIES) :
             ISSUE_TYPE_ALIAS_ENTRIES[k].token = fn.out.token
             => ISSUE_TYPE_ALIAS_ENTRIES[k].key = own
        /\ fn.arg.name = own => fn.out.token = own
        /\ Len(ISSUE_TYPE_KEYS) = 10

C38_Witness ==
  /\ RegistryNameNormalized
  /\ fn.arg.name = <<"S", "t", "o", "r", "y", " ", "/", " ", "F", "e", "a", "t", "u", "r", "e">>
  /\ fn.out.token = <<"s", "t", "o", "r", "y", "_", "f", "e", "a", "t", "u", "r", "e">>
  /\ fn.out.key = Str(s_story)

\* -------------------------------------- C37: the sufficiency retry call
\* the first sufficiency response of the two-phase handler, as parsed
sufficiencyPayload == extractCompletionPayload(received[1].choice)

FirstSufficiencyParsed ==
  /\ variant = "two-phase"
  /\ Len(received) >= 1
  /\ received[1].kind = "choice"
  /\ sufficiencyPayload.ok
  /\ JsonParse(sufficiencyPayload.cleaned).ok

firstSufficiency == JsonParse(sufficiencyPayload.cleaned).value

\* not_enough without a missing_info_prompt
NotEnoughWithoutPrompt ==
  /\ FirstSufficiencyParsed
  /\ Get(firstSufficiency, "status") = Str(s_not_enough)
  /\ ~Truthy(Get(firstSufficiency, "missing_info_prompt"))

\* C37: in the two-phase handler, when the first sufficiency response is
\* not_enough without a missing_info_prompt, exactly one corrective retry
\* call is issued, its messages being the original messages followed by
\* the rejected raw output and the correction instruction.
C37_SufficiencyRetry ==
  NotEnoughWithoutPrompt
  => /\ Len(sent) >= 2
     /\ sent[2] = buildSufficiencyRetryMessages(sent[1], sufficiencyPayload.raw)
     /\ response # Reject(502, "AI sufficiency check missing required fields")

\* what the handler does instead: the first response is rejected by
\* ensureValidSufficiency and no further call is issued
SufficiencyRetryNeverIssued ==
  /\ pc # "sufficiency-retry"
  /\ NotEnoughWithoutPrompt
     => /\ pc = "done"
        /\ calls = 1
        /\ response = Reject(502, "AI sufficiency check missing required fields")

\* --------------------------------- C36: not_enough with rounds remaining
\* the primary call returned a not_enough document, rounds remain, and no
\* completion call of the request failed upstream
NotEnoughWithRoundsLeft ==
  /\ variant = "loop"
  /\ pc = "done"
  /\ VerdictNotEnough
  /\ ~roundsExhausted(clarifications)
  /\ \A i \in 1..Len(received) : received[i].kind = "choice"

\* a non-empty string, as characters or as a completion text
isNonEmptyText(x) ==
  \/ isString(x) /\ x.v # <<>>
  \/ isTextString(x) /\ x.v # EmptyText

\* C36: for every not_enough payload with rounds remaining, the reason or
\* the question missing, blank or not a string included, the request ends
\* in a needs_info response whose reason and missingInfoPrompt are
\* non-empty strings or in a coded 502 error, never in an uncoded failure.
C36_NeedsInfoOrCoded ==
  NotEnoughWithRoundsLeft
  => \/ /\ response.kind = "body"
        /\ response.body["status"] = Str(s_needs_info)
        /\ isNonEmptyText(response.body["reason"])
        /\ isNonEmptyText(response.body["missingInfoPrompt"])
     \/ /\ response.kind = "http"
        /\ response.err.statusCode = 502

\* the same for the payloads whose reason and questions are strings or absent
hasStringOrNone(doc, f) == Nullish(Get(doc, f)) \/ isString(Get(doc, f))

NeedsInfoOrCodedForStrings ==
  (/\ NotEnoughWithRoundsLeft
   /\ hasStringOrNone(primaryDocument, "reason")
   /\ hasStringOrNone(primaryDocument, "clarificationRequest")
   /\ hasStringOrNone(primaryDocument, "missing_info_prompt"))
  => \/ /\ response.kind = "body"
        /\ response.body["status"] = Str(s_needs_info)
        /\ isNonEmptyText(response.body["reason"])
        /\ isNonEmptyText(response.body["missingInfoPrompt"])
     \/ /\ response.kind = "http"
        /\ response.err.statusCode = 502

====
